---- MODULE Spec2Model ----
(***************************************************************************)
(* Verification model of gouroboros:                                       *)
(*   - the keep-alive mini-protocol client (protocol/keepalive/client.go), *)
(*   - the local-state-query server shell (second half of the same file),  *)
(*   - the tagged-variant decoders of ledger certificates and pool relays  *)
(*     (ledger/block.go).                                                  *)
(* The generic protocol engine (protocol.Protocol) and the cbor package    *)
(* are not part of the sources; the parts of them the client code calls    *)
(* are modelled from the design document and are marked as such.           *)
(***************************************************************************)
EXTENDS Integers, Sequences, FiniteSets, TLC

\* ------------------------------------------------------------------------
\* Bounds
\* ------------------------------------------------------------------------
\* number of timer firings explored
MaxFirings == 2
\* cookies range over 0..MaxCookie
MaxCookie == 1
\* goroutines that call Client.Start
NumCallers == 2

Callers == 1..NumCallers
Cookies == 0..MaxCookie

\* ------------------------------------------------------------------------
\* Keep-alive state table (template) and engine primitives
\* ------------------------------------------------------------------------
StateClient == "Client"
StateServer == "Server"
StateDone == "Done"

KAStates == {StateClient, StateServer, StateDone}
KAMsgTypes == {"KeepAlive", "KeepAliveResponse", "Done"}

\* Timeout value of a state that carries no timeout
NoTimeout == 0

\* The shared keep-alive state table: agency, timeout and the legal
\* (state, message type) -> next state transitions.
StateMap ==
  [s \in KAStates |->
     IF s = StateClient
       THEN [Agency |-> "Client", Timeout |-> NoTimeout,
             Transitions |-> {<<"KeepAlive", StateServer>>, <<"Done", StateDone>>}]
     ELSE IF s = StateServer
       THEN [Agency |-> "Server", Timeout |-> NoTimeout,
             Transitions |-> {<<"KeepAliveResponse", StateClient>>}]
     ELSE [Agency |-> "None", Timeout |-> NoTimeout, Transitions |-> {}]]

\* legalTransition(currentState, messageType) -> (ok, nextState)
legalTransition(sm, st, mt) ==
  IF \E tr \in sm[st].Transitions : tr[1] = mt
    THEN [ok |-> TRUE,
          next |-> (CHOOSE tr \in sm[st].Transitions : tr[1] = mt)[2]]
    ELSE [ok |-> FALSE, next |-> st]

\* ------------------------------------------------------------------------
\* Keep-alive client: state
\* ------------------------------------------------------------------------
VARIABLES
  config,         \* Client.config: Cookie and whether KeepAliveResponseFunc is set
  onceStart,      \* Client.onceStart: "new" | "running" | "done"
  cpc,            \* position of every goroutine calling Start
  timers,         \* every timer created by time.AfterFunc: its state and the
                  \* position of the goroutine its firing runs
  timer,          \* Client.timer: index into timers, 0 = nil
  protoState,     \* the engine's current protocol state
  done,           \* DoneChan is closed
  cleanupPc,      \* position of the cleanup goroutine of NewClient
  cleanupRef,     \* the timer the cleanup goroutine read from Client.timer
  errChan,        \* errors delivered to the connection error channel
  protocolStarts, \* number of executions of Protocol.Start
  attempts,       \* number of calls of SendMessage(KeepAlive)
  sent,           \* cookies of the KeepAlive messages written to the transport
  lastSendState,  \* protocol state at the latest call of SendMessage
  callbackLog,    \* cookies passed to KeepAliveResponseFunc (the latest two)
  received,       \* cookies of the KeepAliveResponse messages handled (the
                  \* latest two)
  hist            \* history flags used by the properties

kaVars == <<config, onceStart, cpc, timers, timer, protoState, done, cleanupPc,
            cleanupRef, errChan, protocolStarts, attempts, sent, lastSendState,
            callbackLog, received, hist>>

\* ------------------------------------------------------------------------
\* Construction of keep-alive clients: state
\* ------------------------------------------------------------------------
VARIABLES
  maps,           \* the state-table objects in memory; maps[TemplateRef] is
                  \* the package-level StateMap
  clients         \* the clients built so far: config.Timeout and the
                  \* reference held in their ProtocolConfig.StateMap

newVars == <<maps, clients>>

\* ------------------------------------------------------------------------
\* Local-state-query server: state
\* ------------------------------------------------------------------------
VARIABLES
  lsqVersion,     \* protoOptions.Version the server was constructed with
  lsqServer,      \* the Server: which callbacks of config are set, and the
                  \* version-dependent feature flags
  lsqLast         \* the latest call of Server.messageHandler: the message,
                  \* the error returned and the callbacks invoked

lsqVars == <<lsqVersion, lsqServer, lsqLast>>

\* ------------------------------------------------------------------------
\* Ledger decoders: state
\* ------------------------------------------------------------------------
VARIABLES
  wrapper,        \* a CertificateWrapper: Type and Certificate
  relay,          \* a PoolRelay: Type, Port, Ipv4, Ipv6, Hostname
  reward,         \* a MoveInstantaneousRewardsCertificateReward: Source,
                  \* Rewards, OtherPot
  ledLast         \* the latest UnmarshalCBOR call: which receiver, the data,
                  \* the error returned and the receiver before the call

ledVars == <<wrapper, relay, reward, ledLast>>

\* ------------------------------------------------------------------------
\* Ledger block dispatch: state
\* ------------------------------------------------------------------------
VARIABLES
  blkLast,        \* the latest call of NewBlockFromCbor: its arguments, the
                  \* era decoders it called and what it returned
  hdrLast         \* the same for NewBlockHeaderFromCbor

blkVars == <<blkLast, hdrLast>>

\* ------------------------------------------------------------------------
\* Keep-alive message handler called on its own: state
\* ------------------------------------------------------------------------
VARIABLES
  hdlLast         \* the latest call of Client.messageHandler: the message,
                  \* the error returned, the callback invocations, and the
                  \* number of calls so far

hdlVars == <<hdlLast>>

\* ------------------------------------------------------------------------
\* Certificate encode/decode round trip: state
\* ------------------------------------------------------------------------
VARIABLES
  rtPc,           \* "new" | "encoded" | "decoded"
  rtValue,        \* the CertificateWrapper that is encoded
  rtWire,         \* what MarshalCBOR produced
  rtBack          \* what UnmarshalCBOR made of it: the error and the wrapper

rtVars == <<rtPc, rtValue, rtWire, rtBack>>

\* ------------------------------------------------------------------------
\* Keep-alive client with a clock: state
\* ------------------------------------------------------------------------
VARIABLES
  tmConfig,       \* config.Period and config.Timeout
  tmNow,          \* the time
  tmStarted,      \* Start has run
  tmState,        \* the engine's current protocol state
  tmEntered,      \* the time at which the current state was entered
  tmTimer,        \* <<d>> when Client.timer is armed to fire at time d
  tmFail          \* the first failure of the instance: its kind, its time,
                  \* and the time at which the state it occurred in was entered

tmVars == <<tmConfig, tmNow, tmStarted, tmState, tmEntered, tmTimer, tmFail>>

\* ------------------------------------------------------------------------
\* Keep-alive client, startTimer statement by statement: state
\* ------------------------------------------------------------------------
VARIABLES
  made            \* for every timer: the goroutine whose startTimer created
                  \* it (a caller c as -c, the goroutine of timer i as i) and
                  \* whether that goroutine has stored it in Client.timer yet

armVars == <<made>>

\* the variables of the parts added to the three above
otherVars == <<blkVars, hdlVars, rtVars, tmVars, armVars>>

vars == <<kaVars, newVars, lsqVars, ledVars, otherVars>>

\* everything but the keep-alive client
nonKaVars == <<newVars, lsqVars, ledVars, otherVars>>

\* ------------------------------------------------------------------------
\* Engine primitives used by the client (modelled from the design document)
\* ------------------------------------------------------------------------
\* Protocol.SendMessage: the possible results of one call in protocol state
\* st.  A message with no transition from st is refused; a legal message is
\* written and the state advances, unless the transport write fails; after
\* shutdown nothing is written.
SendMessage(sm, st, isDone, mt) ==
  LET lt == legalTransition(sm, st, mt) IN
  IF isDone
    THEN {[err |-> TRUE, written |-> FALSE, next |-> st],
          [err |-> FALSE, written |-> FALSE, next |-> st]}
  ELSE IF lt.ok /\ sm[st].Agency = "Client"
    THEN {[err |-> FALSE, written |-> TRUE, next |-> lt.next],
          [err |-> TRUE, written |-> FALSE, next |-> st]}
  ELSE {[err |-> TRUE, written |-> FALSE, next |-> st]}

\* time.Timer.Stop: an armed timer becomes stopped, any other timer is left
StopTimer(ts, i) ==
  IF i # 0 /\ ts[i].st = "armed" THEN [ts EXCEPT ![i].st = "stopped"] ELSE ts

\* time.AfterFunc: a new armed timer whose goroutine has not started
AfterFunc(ts) == Append(ts, [st |-> "armed", pc |-> "idle"])

\* ------------------------------------------------------------------------
\* Keep-alive client: message handler
\* ------------------------------------------------------------------------
CallbackResults == {"nil", "callback error"}

\* a response handler that hands the callback the configured cookie
handleKeepAliveResponseOwnCookie(cfg, cookie, cbRet) ==
  IF cfg.KeepAliveResponseFunc
    THEN [err |-> cbRet, calls |-> <<cfg.Cookie>>]
    ELSE [err |-> "nil", calls |-> <<>>]

\* a response handler that refuses a cookie other than the configured one
handleKeepAliveResponseChecked(cfg, cookie, cbRet) ==
  IF cookie # cfg.Cookie
    THEN [err |-> "cookie mismatch", calls |-> <<>>]
  ELSE IF cfg.KeepAliveResponseFunc
    THEN [err |-> cbRet, calls |-> <<cookie>>]
    ELSE [err |-> "nil", calls |-> <<>>]

\* Client.handleKeepAliveResponse; cbRet is what the user callback returns
handleKeepAliveResponse(cfg, cookie, cbRet) ==
  IF cfg.KeepAliveResponseFunc
    THEN [err |-> cbRet, calls |-> <<cookie>>]
    ELSE [err |-> "nil", calls |-> <<>>]

\* a message handler that ignores a message of another type
messageHandlerLenient(cfg, mt, cookie, cbRet) ==
  IF mt = "KeepAliveResponse"
    THEN handleKeepAliveResponse(cfg, cookie, cbRet)
    ELSE [err |-> "nil", calls |-> <<>>]

\* Client.messageHandler
messageHandler(cfg, mt, cookie, cbRet) ==
  IF mt = "KeepAliveResponse"
    THEN handleKeepAliveResponse(cfg, cookie, cbRet)
    ELSE [err |-> "unexpected message type", calls |-> <<>>]

\* ------------------------------------------------------------------------
\* Keep-alive client: derived quantities
\* ------------------------------------------------------------------------
TimerIds == 1..Len(timers)
ArmedTimers == {i \in TimerIds : timers[i].st = "armed"}
Firings == Cardinality({i \in TimerIds : timers[i].st = "fired"})
\* goroutines currently between the call of SendMessage and its return handling
InSend == {c \in Callers : cpc[c] \in {"send", "report"}}
InSendTimers == {i \in TimerIds : timers[i].pc \in {"send", "report"}}

\* ------------------------------------------------------------------------
\* Keep-alive client: initial state (after NewClient)
\* ------------------------------------------------------------------------
KAInit ==
  /\ config \in [Cookie : Cookies, KeepAliveResponseFunc : BOOLEAN]
  /\ onceStart = "new"
  /\ cpc = [c \in Callers |-> "idle"]
  /\ timers = <<>>
  /\ timer = 0
  /\ protoState = StateClient
  /\ done = FALSE
  /\ cleanupPc = "waiting"
  /\ cleanupRef = 0
  /\ errChan = <<>>
  /\ protocolStarts = 0
  /\ attempts = 0
  /\ sent = <<>>
  /\ lastSendState = "none"
  /\ callbackLog = <<>>
  /\ received = <<>>
  /\ hist = [initialActions |-> 0, failed |-> FALSE,
             attemptAfterFailure |-> FALSE, attemptAfterTeardown |-> FALSE,
             timerAtDone |-> FALSE, responses |-> 0, callbacks |-> 0,
             returned |-> FALSE]

\* ------------------------------------------------------------------------
\* Keep-alive client: Start
\* ------------------------------------------------------------------------
\* a Start without the one-time gate: every call runs the body
OnceDoEveryCall(once) == [once |-> "running", pc |-> "protoStart"]

\* sync.Once.Do: the first caller runs the body, a caller arriving while the
\* body runs waits for it, a later caller returns at once.
OnceDo(once) ==
  IF once = "new" THEN [once |-> "running", pc |-> "protoStart"]
  ELSE IF once = "running" THEN [once |-> once, pc |-> "blocked"]
  ELSE [once |-> once, pc |-> "idle"]

\* Client.Start is called by goroutine c; a goroutine whose call has returned
\* is idle again and may call Start once more
StartCall(c) ==
  /\ cpc[c] = "idle"
  /\ LET r == OnceDo(onceStart) IN
       /\ onceStart' = r.once
       /\ cpc' = [cpc EXCEPT ![c] = r.pc]
       /\ hist' = [hist EXCEPT !.returned = @ \/ r.pc = "idle"]
  /\ UNCHANGED nonKaVars
  /\ UNCHANGED <<config, timers, timer, protoState, done, cleanupPc, cleanupRef,
                 errChan, protocolStarts, attempts, sent, lastSendState,
                 callbackLog, received>>

\* a caller blocked in Once.Do returns when the body has completed
StartUnblock(c) ==
  /\ cpc[c] = "blocked"
  /\ onceStart = "done"
  /\ cpc' = [cpc EXCEPT ![c] = "idle"]
  /\ hist' = [hist EXCEPT !.returned = TRUE]
  /\ UNCHANGED nonKaVars
  /\ UNCHANGED <<config, onceStart, timers, timer, protoState, done, cleanupPc,
                 cleanupRef, errChan, protocolStarts, attempts, sent,
                 lastSendState, callbackLog, received>>

\* a body of Start that arms the timer without sending first
ProtocolStartArmFirst(c) ==
  /\ cpc[c] = "protoStart"
  /\ protocolStarts' = protocolStarts + 1
  /\ hist' = [hist EXCEPT !.initialActions = @ + 1]
  /\ cpc' = [cpc EXCEPT ![c] = "arm"]
  /\ UNCHANGED nonKaVars
  /\ UNCHANGED <<config, onceStart, timers, timer, protoState, done, cleanupPc,
                 cleanupRef, errChan, attempts, sent, lastSendState,
                 callbackLog, received>>

\* the body of Start: c.Protocol.Start(), then sendKeepAlive is entered
ProtocolStart(c) ==
  /\ cpc[c] = "protoStart"
  /\ protocolStarts' = protocolStarts + 1
  /\ hist' = [hist EXCEPT !.initialActions = @ + 1]
  /\ cpc' = [cpc EXCEPT ![c] = "send"]
  /\ UNCHANGED nonKaVars
  /\ UNCHANGED <<config, onceStart, timers, timer, protoState, done, cleanupPc,
                 cleanupRef, errChan, attempts, sent, lastSendState,
                 callbackLog, received>>

\* ------------------------------------------------------------------------
\* Keep-alive client: sendKeepAlive and startTimer
\* ------------------------------------------------------------------------
\* a sendKeepAlive that derives a new cookie for every message
KeepAliveCookieFresh(cfg, n) == (cfg.Cookie + n) % 65536

\* the cookie of the message built by sendKeepAlive when n messages were
\* written before: NewMsgKeepAlive(c.config.Cookie)
KeepAliveCookie(cfg, n) == cfg.Cookie

\* Protocol.SendError: the error is put on the connection error channel
SendError(ch, e) == Append(ch, e)

\* effects on the shared state of one call c.SendMessage(msg) with outcome o
SendStep(o) ==
  /\ attempts' = attempts + 1
  /\ lastSendState' = protoState
  /\ protoState' = o.next
  /\ sent' = IF o.written
               THEN Append(sent, KeepAliveCookie(config, Len(sent)))
               ELSE sent
  /\ hist' = [hist EXCEPT
                !.failed = @ \/ o.err,
                !.attemptAfterFailure = @ \/ hist.failed,
                !.attemptAfterTeardown = @ \/ cleanupPc = "exited"]

\* sendKeepAlive, line "c.SendMessage(msg)", run by the goroutine inside Start
CallerSend(c) ==
  /\ cpc[c] = "send"
  /\ \E o \in SendMessage(StateMap, protoState, done, "KeepAlive") :
       /\ SendStep(o)
       /\ cpc' = [cpc EXCEPT ![c] = IF o.err THEN "report" ELSE "arm"]
  /\ UNCHANGED nonKaVars
  /\ UNCHANGED <<config, onceStart, timers, timer, done, cleanupPc, cleanupRef,
                 errChan, protocolStarts, callbackLog, received>>

\* sendKeepAlive, line "c.SendError(err)"
CallerSendError(c) ==
  /\ cpc[c] = "report"
  /\ errChan' = SendError(errChan, "send")
  /\ cpc' = [cpc EXCEPT ![c] = "arm"]
  /\ UNCHANGED nonKaVars
  /\ UNCHANGED <<config, onceStart, timers, timer, protoState, done, cleanupPc,
                 cleanupRef, protocolStarts, attempts, sent, lastSendState,
                 callbackLog, received, hist>>

\* startTimer: stop the timer Client.timer refers to, create the next one
startTimer(ts, cur) ==
  [timers |-> AfterFunc(StopTimer(ts, cur)), timer |-> Len(ts) + 1]

\* sendKeepAlive, line "c.startTimer()"; the body of Start then returns
CallerStartTimer(c) ==
  /\ cpc[c] = "arm"
  /\ LET r == startTimer(timers, timer) IN
       /\ timers' = r.timers
       /\ timer' = r.timer
  /\ onceStart' = "done"
  /\ cpc' = [cpc EXCEPT ![c] = "idle"]
  /\ hist' = [hist EXCEPT !.returned = TRUE]
  /\ UNCHANGED nonKaVars
  /\ UNCHANGED <<config, protoState, done, cleanupPc, cleanupRef, errChan,
                 protocolStarts, attempts, sent, lastSendState, callbackLog,
                 received>>

\* a timer that stays pending when its function is started
TimerFireRearmed(i) ==
  /\ i \in ArmedTimers
  /\ timers[i].pc = "idle"
  /\ Len(timers) <= MaxFirings
  /\ timers' = [timers EXCEPT ![i] = [st |-> "armed", pc |-> "send"]]
  /\ UNCHANGED nonKaVars
  /\ UNCHANGED <<config, onceStart, cpc, timer, protoState, done, cleanupPc,
                 cleanupRef, errChan, protocolStarts, attempts, sent,
                 lastSendState, callbackLog, received, hist>>

\* the period of timer i elapses: its goroutine starts running sendKeepAlive
TimerFire(i) ==
  /\ i \in ArmedTimers
  /\ Firings < MaxFirings
  /\ timers' = [timers EXCEPT ![i] = [st |-> "fired", pc |-> "send"]]
  /\ UNCHANGED nonKaVars
  /\ UNCHANGED <<config, onceStart, cpc, timer, protoState, done, cleanupPc,
                 cleanupRef, errChan, protocolStarts, attempts, sent,
                 lastSendState, callbackLog, received, hist>>

\* sendKeepAlive, line "c.SendMessage(msg)", run by the goroutine of timer i
TimerSend(i) ==
  /\ i \in TimerIds
  /\ timers[i].pc = "send"
  /\ \E o \in SendMessage(StateMap, protoState, done, "KeepAlive") :
       /\ SendStep(o)
       /\ timers' = [timers EXCEPT ![i].pc = IF o.err THEN "report" ELSE "arm"]
  /\ UNCHANGED nonKaVars
  /\ UNCHANGED <<config, onceStart, cpc, timer, done, cleanupPc, cleanupRef,
                 errChan, protocolStarts, callbackLog, received>>

\* a sendKeepAlive that returns after reporting a failed send
TimerSendErrorReturn(i) ==
  /\ i \in TimerIds
  /\ timers[i].pc = "report"
  /\ errChan' = SendError(errChan, "send")
  /\ timers' = [timers EXCEPT ![i].pc = "finished"]
  /\ UNCHANGED nonKaVars
  /\ UNCHANGED <<config, onceStart, cpc, timer, protoState, done, cleanupPc,
                 cleanupRef, protocolStarts, attempts, sent, lastSendState,
                 callbackLog, received, hist>>

\* sendKeepAlive, line "c.SendError(err)", run by the goroutine of timer i
TimerSendError(i) ==
  /\ i \in TimerIds
  /\ timers[i].pc = "report"
  /\ errChan' = SendError(errChan, "send")
  /\ timers' = [timers EXCEPT ![i].pc = "arm"]
  /\ UNCHANGED nonKaVars
  /\ UNCHANGED <<config, onceStart, cpc, timer, protoState, done, cleanupPc,
                 cleanupRef, protocolStarts, attempts, sent, lastSendState,
                 callbackLog, received, hist>>

TimerStartTimer(i) ==
  /\ i \in TimerIds
  /\ timers[i].pc = "arm"
  /\ LET r == startTimer([timers EXCEPT ![i].pc = "finished"], timer) IN
       /\ timers' = r.timers
       /\ timer' = r.timer
  /\ UNCHANGED nonKaVars
  /\ UNCHANGED <<config, onceStart, cpc, protoState, done, cleanupPc,
                 cleanupRef, errChan, protocolStarts, attempts, sent,
                 lastSendState, callbackLog, received, hist>>

\* ------------------------------------------------------------------------
\* Keep-alive client: shutdown and the cleanup goroutine of NewClient
\* ------------------------------------------------------------------------
\* the connection shuts the protocol down: DoneChan is closed
Shutdown ==
  /\ ~done
  /\ done' = TRUE
  /\ hist' = [hist EXCEPT !.timerAtDone = (timer # 0)]
  /\ UNCHANGED nonKaVars
  /\ UNCHANGED <<config, onceStart, cpc, timers, timer, protoState, cleanupPc,
                 cleanupRef, errChan, protocolStarts, attempts, sent,
                 lastSendState, callbackLog, received>>

\* "<-c.Protocol.DoneChan()" returns
CleanupWake ==
  /\ cleanupPc = "waiting"
  /\ done
  /\ cleanupPc' = "check"
  /\ UNCHANGED nonKaVars
  /\ UNCHANGED <<config, onceStart, cpc, timers, timer, protoState, done,
                 cleanupRef, errChan, protocolStarts, attempts, sent,
                 lastSendState, callbackLog, received, hist>>

\* "if c.timer != nil": an unsynchronised read of Client.timer
CleanupCheck ==
  /\ cleanupPc = "check"
  /\ cleanupRef' = timer
  /\ cleanupPc' = IF timer # 0 THEN "stop" ELSE "exited"
  /\ UNCHANGED nonKaVars
  /\ UNCHANGED <<config, onceStart, cpc, timers, timer, protoState, done,
                 errChan, protocolStarts, attempts, sent, lastSendState,
                 callbackLog, received, hist>>

\* "c.timer.Stop()": the field may be read again or the earlier read reused
CleanupStop ==
  /\ cleanupPc = "stop"
  /\ \E ref \in {cleanupRef, timer} : timers' = StopTimer(timers, ref)
  /\ cleanupPc' = "exited"
  /\ UNCHANGED nonKaVars
  /\ UNCHANGED <<config, onceStart, cpc, timer, protoState, done, cleanupRef,
                 errChan, protocolStarts, attempts, sent, lastSendState,
                 callbackLog, received, hist>>

\* ------------------------------------------------------------------------
\* Keep-alive client: the read pump delivers an inbound message
\* ------------------------------------------------------------------------
\* the logs keep their latest two entries
LatestTwo(log) == IF Len(log) > 2 THEN SubSeq(log, Len(log) - 1, Len(log)) ELSE log

Receive(mt, cookie, cbRet) ==
  /\ protocolStarts > 0
  /\ ~done
  /\ LET lt == legalTransition(StateMap, protoState, mt)
         legal == lt.ok /\ StateMap[protoState].Agency = "Server"
         r == messageHandler(config, mt, cookie, cbRet)
     IN IF legal
          THEN /\ protoState' = lt.next
               /\ callbackLog' = LatestTwo(callbackLog \o r.calls)
               /\ received' = LatestTwo(Append(received, cookie))
               /\ errChan' = IF r.err # "nil"
                                THEN SendError(errChan, "handler") ELSE errChan
               /\ done' = (r.err # "nil")
               /\ hist' = [hist EXCEPT
                             !.responses = @ + 1,
                             !.callbacks = @ + Len(r.calls),
                             !.timerAtDone = IF r.err # "nil" THEN timer # 0 ELSE @]
          ELSE /\ errChan' = SendError(errChan, "unexpected message")
               /\ done' = TRUE
               /\ hist' = [hist EXCEPT !.timerAtDone = (timer # 0)]
               /\ UNCHANGED <<protoState, callbackLog, received>>
  /\ UNCHANGED nonKaVars
  /\ UNCHANGED <<config, onceStart, cpc, timers, timer, cleanupPc, cleanupRef,
                 protocolStarts, attempts, sent, lastSendState>>

\* ------------------------------------------------------------------------
\* Keep-alive client: specification
\* ------------------------------------------------------------------------
Next ==
  \/ \E c \in Callers : StartCall(c)
  \/ \E c \in Callers : StartUnblock(c)
  \/ \E c \in Callers : ProtocolStart(c)
  \/ \E c \in Callers : CallerSend(c)
  \/ \E c \in Callers : CallerSendError(c)
  \/ \E c \in Callers : CallerStartTimer(c)
  \/ \E i \in TimerIds : TimerFire(i)
  \/ \E i \in TimerIds : TimerSend(i)
  \/ \E i \in TimerIds : TimerSendError(i)
  \/ \E i \in TimerIds : TimerStartTimer(i)
  \/ Shutdown
  \/ CleanupWake
  \/ CleanupCheck
  \/ CleanupStop
  \/ \E mt \in KAMsgTypes, cookie \in Cookies, cbRet \in CallbackResults :
       Receive(mt, cookie, cbRet)

\* ------------------------------------------------------------------------
\* Keep-alive client: properties
\* ------------------------------------------------------------------------
\* goroutines that entered sendKeepAlive and have not yet called SendMessage
PendingSends ==
  Cardinality({c \in Callers : cpc[c] = "send"})
    + Cardinality({i \in TimerIds : timers[i].pc = "send"})

\* C1: once the completion notification has fired and the cleanup goroutine
\* has run, no timer of a client that had armed one is armed any more and no
\* KeepAlive send is attempted afterwards.
C1_TeardownCancelsTimer ==
  (cleanupPc = "exited" /\ hist.timerAtDone)
    => (ArmedTimers = {} /\ ~hist.attemptAfterTeardown)

\* C2: whatever number of goroutines call Start, Protocol.Start and the
\* initial sendKeepAlive are executed at most once, and exactly once as soon
\* as some call of Start has returned.
C2_StartOnce ==
  /\ protocolStarts <= 1
  /\ hist.initialActions <= 1
  /\ hist.returned
       => (protocolStarts = 1 /\ hist.initialActions = 1 /\ attempts >= 1)

\* a call of Start has returned while another caller still waits in Once.Do
C2_Witness ==
  /\ hist.returned
  /\ \E c \in Callers : cpc[c] = "blocked"
  /\ protocolStarts = 1

\* C3: every call of SendMessage(KeepAlive) is made while the protocol state
\* is Client, and no two goroutines are inside a send at the same time.
C3_StrictAgency ==
  /\ lastSendState \in {"none", StateClient}
  /\ Cardinality(InSend) + Cardinality(InSendTimers) <= 1

\* C4: after a failed SendMessage the error is delivered to the error channel
\* at most once and the client makes no further send attempt.
C4_SendFailureFatalOnce ==
  /\ ~hist.attemptAfterFailure
  /\ Len(SelectSeq(errChan, LAMBDA e : e = "send")) <= 1

\* C9: the response callback, when configured, has been invoked exactly once
\* per handled KeepAliveResponse, with that response's cookie and in order;
\* and every call of SendMessage belongs to the body of Start or to one timer
\* firing, one call each, so a received response never causes a send.
C9_ResponseHandling ==
  /\ IF config.KeepAliveResponseFunc
       THEN callbackLog = received /\ hist.callbacks = hist.responses
       ELSE callbackLog = <<>> /\ hist.callbacks = 0
  /\ attempts + PendingSends = hist.initialActions + Firings

C9_Witness ==
  /\ config.KeepAliveResponseFunc
  /\ hist.responses >= 2
  /\ Firings >= 2
  /\ received[1] # received[2]

\* C10 as stated: each KeepAlive written carries a cookie different from the
\* one written before it.
C10_FreshCookie ==
  \A k \in 2..Len(sent) : sent[k] # sent[k - 1]

\* C10 as amended: every KeepAlive written carries the configured cookie,
\* hence the same cookie as the one written before it.
C10_ConfiguredCookie ==
  \A k \in 1..Len(sent) : sent[k] = config.Cookie

C10_Witness ==
  /\ Len(sent) >= 2
  /\ Firings >= 1

\* C11: the first call of SendMessage is made by the body of Start while no
\* timer has been created yet, no timer is created before that call, and the
\* first KeepAlive written carries the configured cookie.
C11_InitialAction ==
  [][/\ (attempts = 0 /\ attempts' = 1)
          => (/\ timers = <<>>
              /\ timer = 0
              /\ \E c \in Callers : cpc[c] = "send"
              /\ hist.initialActions = 1)
     /\ (timers = <<>> /\ timers' # <<>>) => attempts >= 1
     /\ (sent = <<>> /\ sent' # <<>>) => sent' = <<config.Cookie>>]_vars

\* Start has returned: the first KeepAlive was written with a cookie other
\* than the default one, and the first timer is armed
C11_Witness ==
  /\ hist.returned
  /\ config.Cookie = 1
  /\ sent = <<1>>
  /\ attempts = 1
  /\ Len(timers) = 1
  /\ timers[1].st = "armed"

\* goroutines that are inside sendKeepAlive
InSendKeepAlive ==
  Cardinality({c \in Callers : cpc[c] \in {"send", "report", "arm"}})
    + Cardinality({i \in TimerIds : timers[i].pc \in {"send", "report", "arm"}})

\* C18: every execution of sendKeepAlive ends by creating a timer that is
\* armed and is the one Client.timer refers to, also when its send failed;
\* and with goroutines that run and timers that fire, sendKeepAlive runs
\* again and again: every execution is followed by the next call of
\* SendMessage until the instance is shut down (or, here, until the number of
\* firings explored is reached).
C18_RecurringSend ==
  /\ [][InSendKeepAlive' < InSendKeepAlive
          => /\ Len(timers') = Len(timers) + 1
             /\ timer' = Len(timers')
             /\ timers'[timer'].st = "armed"]_vars
  /\ \A k \in 1..MaxFirings :
       (attempts = k) ~> (attempts = k + 1 \/ done)

\* a send failed, and a later firing made the next attempt
C18_Witness ==
  /\ hist.attemptAfterFailure
  /\ Firings = MaxFirings
  /\ attempts = MaxFirings + 1
  /\ ~done

\* the cookies of the KeepAlive messages written so far
SentCookies == {sent[k] : k \in 1..Len(sent)}

\* C17: a KeepAliveResponse handed to the handler in state Server reaches the
\* callback with the cookie it carries, whether or not that cookie was ever
\* sent, and the handler returns what the callback returns (nil without a
\* callback): the instance fails exactly when the callback returns an error.
C17_CookieForwardedUnchecked ==
  [][\A cookie \in Cookies, cbRet \in CallbackResults :
       (protoState = StateServer /\ Receive("KeepAliveResponse", cookie, cbRet))
         => IF config.KeepAliveResponseFunc
              THEN /\ callbackLog' = LatestTwo(Append(callbackLog, cookie))
                   /\ hist'.callbacks = hist.callbacks + 1
                   /\ done' = (cbRet # "nil")
                   /\ errChan' = IF cbRet # "nil"
                                   THEN Append(errChan, "handler") ELSE errChan
              ELSE /\ callbackLog' = callbackLog
                   /\ hist'.callbacks = hist.callbacks
                   /\ ~done'
                   /\ errChan' = errChan]_vars

\* the callback was called with a cookie that no KeepAlive carried, and its
\* error became the handler's result
C17_Witness ==
  /\ config.KeepAliveResponseFunc
  /\ sent # <<>>
  /\ callbackLog # <<>>
  /\ callbackLog[Len(callbackLog)] \notin SentCookies
  /\ received = callbackLog
  /\ errChan = <<"handler">>

\* ------------------------------------------------------------------------
\* Construction of keep-alive clients (NewClient)
\* ------------------------------------------------------------------------
\* clients constructed
MaxClients == 3
\* configured timeouts range over 0..MaxTimeout
MaxTimeout == 4

Timeouts == 0..MaxTimeout
TemplateRef == 1

\* StateMap.Copy: a new table object with the entries of the table at src
Copy(heap, src) ==
  [heap |-> Append(heap, heap[src]), ref |-> Len(heap) + 1]

\* NewClient overwriting the Timeout in the shared table itself
NewClientStateMapShared(heap, timeout) ==
  IF StateServer \in DOMAIN heap[TemplateRef]
    THEN [heap |-> [heap EXCEPT ![TemplateRef][StateServer].Timeout = timeout],
          ref |-> TemplateRef]
    ELSE [heap |-> heap, ref |-> TemplateRef]

\* NewClient, "Update state map with timeout": copy the template, overwrite
\* the Timeout of the StateServer entry of the copy when the entry exists
NewClientStateMap(heap, timeout) ==
  LET cp == Copy(heap, TemplateRef)
      stateMap == cp.heap[cp.ref]
  IN IF StateServer \in DOMAIN stateMap
       THEN [heap |-> [cp.heap EXCEPT ![cp.ref][StateServer].Timeout = timeout],
             ref |-> cp.ref]
       ELSE cp

\* NewClient(protoOptions, cfg) with cfg.Timeout = timeout
NewClient(timeout) ==
  /\ Len(clients) < MaxClients
  /\ LET r == NewClientStateMap(maps, timeout) IN
       /\ maps' = r.heap
       /\ clients' = Append(clients, [Timeout |-> timeout, StateMap |-> r.ref])
  /\ UNCHANGED <<kaVars, lsqVars, ledVars, otherVars>>

\* C5: constructing clients never changes the shared template; every client's
\* table equals the template except for the Timeout of StateServer, which is
\* the client's configured Timeout; every client has a table object of its own.
C5_CopyOnConfigure ==
  /\ maps[TemplateRef] = StateMap
  /\ \A k \in 1..Len(clients) :
       /\ clients[k].StateMap # TemplateRef
       /\ maps[clients[k].StateMap]
            = [StateMap EXCEPT ![StateServer].Timeout = clients[k].Timeout]
       /\ \A j \in 1..Len(clients) :
            j # k => clients[j].StateMap # clients[k].StateMap

C5_Witness ==
  /\ Len(clients) >= 2
  /\ clients[1].Timeout # clients[2].Timeout
  /\ clients[1].Timeout # NoTimeout
  /\ clients[2].Timeout # NoTimeout

\* ------------------------------------------------------------------------
\* Local-state-query server
\* ------------------------------------------------------------------------
\* negotiated versions range over 8..MaxVersion
MaxVersion == 12
\* chain points range over 1..MaxPoint
MaxPoint == 2

Versions == 8..MaxVersion
Points == 1..MaxPoint

LsqCallbacks ==
  {"AcquireFunc", "QueryFunc", "ReleaseFunc", "ReAcquireFunc", "DoneFunc"}

\* the message types of the protocol; the last three are sent by the server
LsqMsgTypes ==
  {"Acquire", "AcquireNoPoint", "Query", "Release", "Reacquire",
   "ReacquireNoPoint", "Done", "Acquired", "Failure", "Result"}

\* the queries named by the feature flags, and one that is not gated
LsqQueries ==
  {"GetChainBlockNo", "GetChainPoint", "GetRewardInfoPoolsBlock",
   "GetCurrentEra"}

\* a decoded message: Point is <<p>> for a message that carries a point and
\* <<>> otherwise, Query is the query of a Query message and "" otherwise
LsqMessages ==
  {[Type |-> t, Point |-> <<p>>, Query |-> ""] :
     t \in {"Acquire", "Reacquire"}, p \in Points}
  \cup {[Type |-> "Query", Point |-> <<>>, Query |-> q] : q \in LsqQueries}
  \cup {[Type |-> t, Point |-> <<>>, Query |-> ""] :
          t \in LsqMsgTypes \ {"Acquire", "Reacquire", "Query"}}

\* NewServer: the callbacks of cfg and the version-dependent feature flags
NewServer(version, cfg) ==
  [config |-> cfg,
   enableGetChainBlockNo |-> (version >= 10),
   enableGetChainPoint |-> (version >= 10),
   enableGetRewardInfoPoolsBlock |-> (version >= 11)]

\* one invocation of a user callback: its name and its arguments
Call(fn, point, query) == [fn |-> fn, Point |-> point, Query |-> query]

\* the error built by fmt.Errorf("... but no callback function is defined")
ErrNoCallback == "no callback function is defined"

\* Server.handleAcquire; the type switch is on the concrete message type,
\* which the message catalog fixes from the message type
handleAcquire(s, msg, cbRet) ==
  IF ~s.config["AcquireFunc"]
    THEN [err |-> ErrNoCallback, calls |-> <<>>]
  ELSE IF msg.Type = "Acquire"
    THEN [err |-> cbRet, calls |-> <<Call("AcquireFunc", msg.Point, "")>>]
  ELSE IF msg.Type = "AcquireNoPoint"
    THEN [err |-> cbRet, calls |-> <<Call("AcquireFunc", <<>>, "")>>]
  ELSE [err |-> "nil", calls |-> <<>>]

\* a handleQuery that ignores a Query when no callback is set
handleQueryUnchecked(s, msg, cbRet) ==
  IF ~s.config["QueryFunc"]
    THEN [err |-> "nil", calls |-> <<>>]
    ELSE [err |-> cbRet, calls |-> <<Call("QueryFunc", <<>>, msg.Query)>>]

\* Server.handleQuery
handleQuery(s, msg, cbRet) ==
  IF ~s.config["QueryFunc"]
    THEN [err |-> ErrNoCallback, calls |-> <<>>]
    ELSE [err |-> cbRet, calls |-> <<Call("QueryFunc", <<>>, msg.Query)>>]

\* Server.handleRelease
handleRelease(s, cbRet) ==
  IF ~s.config["ReleaseFunc"]
    THEN [err |-> ErrNoCallback, calls |-> <<>>]
    ELSE [err |-> cbRet, calls |-> <<Call("ReleaseFunc", <<>>, "")>>]

\* a handleReAcquire that hands a re-acquire to the acquire callback
handleReAcquireViaAcquire(s, msg, cbRet) ==
  IF ~s.config["ReAcquireFunc"]
    THEN [err |-> ErrNoCallback, calls |-> <<>>]
  ELSE IF msg.Type = "Reacquire"
    THEN [err |-> cbRet, calls |-> <<Call("AcquireFunc", msg.Point, "")>>]
  ELSE IF msg.Type = "ReacquireNoPoint"
    THEN [err |-> cbRet, calls |-> <<Call("AcquireFunc", <<>>, "")>>]
  ELSE [err |-> "nil", calls |-> <<>>]

\* Server.handleReAcquire
handleReAcquire(s, msg, cbRet) ==
  IF ~s.config["ReAcquireFunc"]
    THEN [err |-> ErrNoCallback, calls |-> <<>>]
  ELSE IF msg.Type = "Reacquire"
    THEN [err |-> cbRet, calls |-> <<Call("ReAcquireFunc", msg.Point, "")>>]
  ELSE IF msg.Type = "ReacquireNoPoint"
    THEN [err |-> cbRet, calls |-> <<Call("ReAcquireFunc", <<>>, "")>>]
  ELSE [err |-> "nil", calls |-> <<>>]

\* Server.handleDone
handleDone(s, cbRet) ==
  IF ~s.config["DoneFunc"]
    THEN [err |-> ErrNoCallback, calls |-> <<>>]
    ELSE [err |-> cbRet, calls |-> <<Call("DoneFunc", <<>>, "")>>]

\* a message handler whose switch lacks the case of ReacquireNoPoint
lsqMessageHandlerNoReacquireNoPoint(s, msg, cbRet) ==
  CASE msg.Type = "Acquire" -> handleAcquire(s, msg, cbRet)
    [] msg.Type = "Query" -> handleQuery(s, msg, cbRet)
    [] msg.Type = "Release" -> handleRelease(s, cbRet)
    [] msg.Type = "Reacquire" -> handleReAcquire(s, msg, cbRet)
    [] msg.Type = "AcquireNoPoint" -> handleAcquire(s, msg, cbRet)
    [] msg.Type = "Done" -> handleDone(s, cbRet)
    [] OTHER -> [err |-> "received unexpected message type", calls |-> <<>>]

\* Server.messageHandler
lsqMessageHandler(s, msg, cbRet) ==
  CASE msg.Type = "Acquire" -> handleAcquire(s, msg, cbRet)
    [] msg.Type = "Query" -> handleQuery(s, msg, cbRet)
    [] msg.Type = "Release" -> handleRelease(s, cbRet)
    [] msg.Type = "Reacquire" -> handleReAcquire(s, msg, cbRet)
    [] msg.Type = "AcquireNoPoint" -> handleAcquire(s, msg, cbRet)
    [] msg.Type = "ReacquireNoPoint" -> handleReAcquire(s, msg, cbRet)
    [] msg.Type = "Done" -> handleDone(s, cbRet)
    [] OTHER -> [err |-> "received unexpected message type", calls |-> <<>>]

LsqNoCall ==
  [handled |-> FALSE, msg |-> [Type |-> "", Point |-> <<>>, Query |-> ""],
   err |-> "nil", calls |-> <<>>]

\* the engine hands the decoded inbound message msg to the message handler
LsqHandle(msg, cbRet) ==
  /\ LET r == lsqMessageHandler(lsqServer, msg, cbRet) IN
       lsqLast' = [handled |-> TRUE, msg |-> msg, err |-> r.err,
                   calls |-> r.calls]
  /\ UNCHANGED <<lsqVersion, lsqServer, kaVars, newVars, ledVars, otherVars>>

\* the feature a message needs is not enabled on server s
FeatureDisabled(s, msg) ==
  /\ msg.Type = "Query"
  /\ \/ msg.Query = "GetChainBlockNo" /\ ~s.enableGetChainBlockNo
     \/ msg.Query = "GetChainPoint" /\ ~s.enableGetChainPoint
     \/ msg.Query = "GetRewardInfoPoolsBlock" /\ ~s.enableGetRewardInfoPoolsBlock

\* C6: a message that needs a feature the negotiated version has not enabled
\* is rejected: the handler returns an error (the unsupported-feature error)
\* and invokes no callback.
C6_VersionGating ==
  (lsqLast.handled /\ FeatureDisabled(lsqServer, lsqLast.msg))
    => (lsqLast.err # "nil" /\ lsqLast.calls = <<>>)

\* the callback a message type is dispatched to
CallbackOf(t) ==
  CASE t \in {"Acquire", "AcquireNoPoint"} -> "AcquireFunc"
    [] t = "Query" -> "QueryFunc"
    [] t = "Release" -> "ReleaseFunc"
    [] t \in {"Reacquire", "ReacquireNoPoint"} -> "ReAcquireFunc"
    [] t = "Done" -> "DoneFunc"

\* C7: a message of one of the seven client message types whose callback is
\* not set makes the handler return an error without invoking any callback.
C7_MissingHandler ==
  (/\ lsqLast.handled
   /\ lsqLast.msg.Type \in {"Acquire", "AcquireNoPoint", "Query", "Release",
                            "Reacquire", "ReacquireNoPoint", "Done"}
   /\ ~lsqServer.config[CallbackOf(lsqLast.msg.Type)])
    => (lsqLast.err # "nil" /\ lsqLast.calls = <<>>)

C7_Witness ==
  /\ lsqLast.handled
  /\ lsqLast.msg.Type = "Query"
  /\ ~lsqServer.config["QueryFunc"]
  /\ lsqServer.config["AcquireFunc"]
  /\ lsqLast.err = ErrNoCallback

\* C12: with AcquireFunc set, Acquire carrying point P calls AcquireFunc(P)
\* and AcquireNoPoint calls AcquireFunc(nil); with ReAcquireFunc set,
\* Reacquire carrying P calls ReAcquireFunc(P) and ReacquireNoPoint calls
\* ReAcquireFunc(nil); no other callback is called for these four types.
C12_VariantCollapse ==
  lsqLast.handled =>
    /\ (lsqLast.msg.Type = "Acquire" /\ lsqServer.config["AcquireFunc"])
          => lsqLast.calls = <<Call("AcquireFunc", lsqLast.msg.Point, "")>>
    /\ (lsqLast.msg.Type = "AcquireNoPoint" /\ lsqServer.config["AcquireFunc"])
          => lsqLast.calls = <<Call("AcquireFunc", <<>>, "")>>
    /\ (lsqLast.msg.Type = "Reacquire" /\ lsqServer.config["ReAcquireFunc"])
          => lsqLast.calls = <<Call("ReAcquireFunc", lsqLast.msg.Point, "")>>
    /\ (lsqLast.msg.Type = "ReacquireNoPoint" /\ lsqServer.config["ReAcquireFunc"])
          => lsqLast.calls = <<Call("ReAcquireFunc", <<>>, "")>>
    /\ lsqLast.msg.Type \in {"Acquire", "AcquireNoPoint", "Reacquire",
                             "ReacquireNoPoint"}
          => \A k \in 1..Len(lsqLast.calls) :
                lsqLast.calls[k].fn = CallbackOf(lsqLast.msg.Type)

\* a Reacquire carrying the second point reached ReAcquireFunc on a server
\* that has both callbacks
C12_Witness ==
  /\ lsqLast.handled
  /\ lsqServer.config["AcquireFunc"]
  /\ lsqServer.config["ReAcquireFunc"]
  /\ lsqLast.msg.Type = "Reacquire"
  /\ lsqLast.msg.Point = <<2>>
  /\ lsqLast.calls = <<Call("ReAcquireFunc", <<2>>, "")>>

\* the seven message types the server handles
LsqClientMsgTypes ==
  {"Acquire", "AcquireNoPoint", "Query", "Release", "Reacquire",
   "ReacquireNoPoint", "Done"}

\* C19: on a server with all five callbacks, a message of one of the seven
\* handled types calls the callback of its type exactly once and the handler
\* returns what the callback returns; a message of another type returns an
\* error and calls nothing; the record of the latest call changes only when
\* a message is handled.
C19_TotalSingleShotDispatch ==
  [][/\ \A msg \in LsqMessages, cbRet \in CallbackResults :
          (LsqHandle(msg, cbRet) /\ \A f \in LsqCallbacks : lsqServer.config[f])
            => IF msg.Type \in LsqClientMsgTypes
                 THEN /\ Len(lsqLast'.calls) = 1
                      /\ lsqLast'.calls[1].fn = CallbackOf(msg.Type)
                      /\ lsqLast'.calls[1].Point = msg.Point
                      /\ lsqLast'.calls[1].Query = msg.Query
                      /\ lsqLast'.err = cbRet
                 ELSE /\ lsqLast'.calls = <<>>
                      /\ lsqLast'.err \notin CallbackResults
     /\ lsqLast' # lsqLast
          => \E msg \in LsqMessages, cbRet \in CallbackResults :
                LsqHandle(msg, cbRet)]_vars

\* a ReacquireNoPoint reached ReAcquireFunc, whose error the handler returned
C19_Witness ==
  /\ \A f \in LsqCallbacks : lsqServer.config[f]
  /\ lsqLast.handled
  /\ lsqLast.msg.Type = "ReacquireNoPoint"
  /\ lsqLast.calls = <<Call("ReAcquireFunc", <<>>, "")>>
  /\ lsqLast.err = "callback error"

\* ------------------------------------------------------------------------
\* Ledger: wire data and decoded values
\* ------------------------------------------------------------------------
\* leading discriminants of certificates range over -1..MaxCertId
MaxCertId == 7
\* leading discriminants of pool relays range over -1..MaxRelayId
MaxRelayId == 3

\* A CBOR data item: k is its major kind, n its number (the integer, the tag
\* number, or an identifier of the byte/text string content), sub the items
\* it contains (a map lists key, value, key, value, ...).
Item(k, n, sub) == [k |-> k, n |-> n, sub |-> sub]
WInt(n) == Item("int", n, <<>>)
WBytes(n) == Item("bytes", n, <<>>)
WText(n) == Item("text", n, <<>>)
WNull == Item("null", 0, <<>>)
WList(items) == Item("list", 0, items)
WMap(items) == Item("map", 0, items)
WTag(n, items) == Item("tag", n, items)

\* A decoded Go value: t is the Go type, n the number or content identifier,
\* sub the fields of a struct or the elements of a slice or map.
Val(t, n, sub) == [t |-> t, n |-> n, sub |-> sub]
Nil == Val("nil", 0, <<>>)

\* A decoding schema: the shape a Go type expects on the wire.
Schema(s, name, of) == [s |-> s, name |-> name, of |-> of]
SUint == Schema("uint", "uint", <<>>)
SBytes == Schema("bytes", "bytes", <<>>)
SText == Schema("text", "string", <<>>)
SPtr(inner) == Schema("ptr", "ptr", <<inner>>)
SStruct(name, fields) == Schema("struct", name, fields)
SSlice(elem) == Schema("slice", "slice", <<elem>>)
SMap(key, val) == Schema("map", "map", <<key, val>>)
SRat == Schema("rat", "Rat", <<>>)
SRelay == Schema("relay", "PoolRelay", <<>>)
SReward == Schema("reward", "MoveInstantaneousRewardsCertificateReward", <<>>)

CertificateTypeStakeRegistration == 0
CertificateTypeStakeDeregistration == 1
CertificateTypeStakeDelegation == 2
CertificateTypePoolRegistration == 3
CertificateTypePoolRetirement == 4
CertificateTypeGenesisKeyDelegation == 5
CertificateTypeMoveInstantaneousRewards == 6

PoolRelayTypeSingleHostAddress == 0
PoolRelayTypeSingleHostName == 1
PoolRelayTypeMultiHostName == 2

\* cbor.DecodeIdFromList: the leading integer of a list, without decoding
\* the rest
DecodeIdFromList(data) ==
  IF data.k = "list" /\ Len(data.sub) > 0 /\ data.sub[1].k = "int"
    THEN [ok |-> TRUE, id |-> data.sub[1].n]
    ELSE [ok |-> FALSE, id |-> 0]

\* a PoolRelay with no field set, and the receiver as a decoded value
ZeroRelay ==
  [Type |-> 0, Port |-> Nil, Ipv4 |-> Nil, Ipv6 |-> Nil, Hostname |-> Nil]
RelayVal(p) == Val("PoolRelay", p.Type, <<p.Port, p.Ipv4, p.Ipv6, p.Hostname>>)

\* a MoveInstantaneousRewardsCertificateReward with no field set
ZeroReward == [Source |-> 0, Rewards |-> Nil, OtherPot |-> 0]
RewardVal(r) ==
  Val("MoveInstantaneousRewardsCertificateReward", 0,
      <<Val("uint", r.Source, <<>>), r.Rewards, Val("uint", r.OtherPot, <<>>)>>)

StakeCredentialSchema == SStruct("StakeCredential", <<SUint, SBytes>>)

RECURSIVE Zero(_)
RECURSIVE ZeroSeq(_)
\* the zero value of the Go type a schema stands for
Zero(sc) ==
  CASE sc.s = "uint" -> Val("uint", 0, <<>>)
    [] sc.s = "bytes" -> Val("bytes", 0, <<>>)
    [] sc.s = "text" -> Val("string", 0, <<>>)
    [] sc.s = "struct" -> Val(sc.name, 0, ZeroSeq(sc.of))
    [] sc.s = "rat" -> Val("Rat", 0, <<>>)
    [] sc.s = "relay" -> RelayVal(ZeroRelay)
    [] sc.s = "reward" -> RewardVal(ZeroReward)
    [] OTHER -> Nil
ZeroSeq(scs) ==
  IF scs = <<>> THEN <<>> ELSE <<Zero(Head(scs))>> \o ZeroSeq(Tail(scs))

DecodeFail == [ok |-> FALSE, val |-> Nil]
DecodeOk(v) == [ok |-> TRUE, val |-> v]

\* ------------------------------------------------------------------------
\* Ledger: decoding
\* ------------------------------------------------------------------------
RECURSIVE Decode(_, _)
RECURSIVE DecodeFields(_, _)
RECURSIVE DecodeElems(_, _)
RECURSIVE DecodePairs(_, _, _)
RECURSIVE PoolRelayUnmarshal(_, _)
RECURSIVE MIRRewardUnmarshal(_, _)

\* cbor.Decode(data, dest) for a destination of the Go type of schema sc that
\* holds its zero value.  CBOR null leaves a non-pointer destination as it is
\* and is not an error; a struct is decoded from a list with one element per
\* field, its fields in order, and keeps the fields that decoded when another
\* field fails.
Decode(item, sc) ==
  IF item.k = "null" /\ sc.s \notin {"relay", "reward"}
    THEN DecodeOk(Zero(sc))
  ELSE CASE sc.s = "uint" ->
              IF item.k = "int" /\ item.n >= 0
                THEN DecodeOk(Val("uint", item.n, <<>>))
                ELSE [ok |-> FALSE, val |-> Zero(sc)]
         [] sc.s = "bytes" ->
              IF item.k = "bytes"
                THEN DecodeOk(Val("bytes", item.n, <<>>))
                ELSE [ok |-> FALSE, val |-> Zero(sc)]
         [] sc.s = "text" ->
              IF item.k = "text"
                THEN DecodeOk(Val("string", item.n, <<>>))
                ELSE [ok |-> FALSE, val |-> Zero(sc)]
         [] sc.s = "ptr" -> Decode(item, sc.of[1])
         [] sc.s = "struct" ->
              IF item.k = "list" /\ Len(item.sub) = Len(sc.of)
                THEN LET fs == DecodeFields(item.sub, sc.of) IN
                       [ok |-> fs.ok, val |-> Val(sc.name, 0, fs.vals)]
                ELSE [ok |-> FALSE, val |-> Zero(sc)]
         [] sc.s = "slice" ->
              IF item.k = "list"
                THEN LET es == DecodeElems(item.sub, sc.of[1]) IN
                       [ok |-> es.ok, val |-> Val("slice", 0, es.vals)]
                ELSE DecodeFail
         [] sc.s = "map" ->
              IF item.k = "map"
                THEN LET ps == DecodePairs(item.sub, sc.of[1], sc.of[2]) IN
                       [ok |-> ps.ok, val |-> Val("map", 0, ps.vals)]
                ELSE DecodeFail
         [] sc.s = "rat" ->
              IF /\ item.k = "tag" /\ item.n = 30 /\ Len(item.sub) = 2
                 /\ item.sub[1].k = "int" /\ item.sub[2].k = "int"
                THEN DecodeOk(Val("Rat", 0, <<Val("int", item.sub[1].n, <<>>),
                                             Val("int", item.sub[2].n, <<>>)>>))
                ELSE [ok |-> FALSE, val |-> Zero(sc)]
         [] sc.s = "relay" ->
              LET r == PoolRelayUnmarshal(ZeroRelay, item) IN
                [ok |-> r.err = "nil", val |-> RelayVal(r.p)]
         [] sc.s = "reward" ->
              LET r == MIRRewardUnmarshal(ZeroReward, item) IN
                [ok |-> r.err = "nil", val |-> RewardVal(r.r)]

\* the fields of a struct, one schema per item
DecodeFields(items, scs) ==
  IF items = <<>>
    THEN [ok |-> TRUE, vals |-> <<>>]
    ELSE LET d == Decode(Head(items), Head(scs))
             rest == DecodeFields(Tail(items), Tail(scs))
         IN [ok |-> d.ok /\ rest.ok, vals |-> <<d.val>> \o rest.vals]

\* the elements of a slice, all of one schema
DecodeElems(items, sc) ==
  IF items = <<>>
    THEN [ok |-> TRUE, vals |-> <<>>]
    ELSE LET d == Decode(Head(items), sc)
             rest == DecodeElems(Tail(items), sc)
         IN [ok |-> d.ok /\ rest.ok, vals |-> <<d.val>> \o rest.vals]

\* the entries of a map: key, value, key, value, ...
DecodePairs(items, ksc, vsc) ==
  IF Len(items) < 2
    THEN [ok |-> items = <<>>, vals |-> <<>>]
    ELSE LET k == Decode(items[1], ksc)
             v == Decode(items[2], vsc)
             rest == DecodePairs(SubSeq(items, 3, Len(items)), ksc, vsc)
         IN [ok |-> k.ok /\ v.ok /\ rest.ok,
             vals |-> <<k.val, v.val>> \o rest.vals]

\* PoolRelay.UnmarshalCBOR on receiver p
PoolRelayUnmarshal(p, data) ==
  LET tmpId == DecodeIdFromList(data)
      p1 == [p EXCEPT !.Type = tmpId.id]
  IN IF ~tmpId.ok THEN [err |-> "decode id", p |-> p]
     ELSE CASE tmpId.id = PoolRelayTypeSingleHostAddress ->
                 LET tmpData == Decode(data, SStruct("tmpData",
                                  <<SUint, SPtr(SUint), SPtr(SBytes), SPtr(SBytes)>>))
                 IN IF ~tmpData.ok THEN [err |-> "decode", p |-> p1]
                    ELSE [err |-> "nil",
                          p |-> [p1 EXCEPT !.Port = tmpData.val.sub[2],
                                           !.Ipv4 = tmpData.val.sub[3],
                                           !.Ipv6 = tmpData.val.sub[4]]]
            [] tmpId.id = PoolRelayTypeSingleHostName ->
                 LET tmpData == Decode(data, SStruct("tmpData",
                                  <<SUint, SPtr(SUint), SPtr(SText)>>))
                 IN IF ~tmpData.ok THEN [err |-> "decode", p |-> p1]
                    ELSE [err |-> "nil",
                          p |-> [p1 EXCEPT !.Port = tmpData.val.sub[2],
                                           !.Hostname = tmpData.val.sub[3]]]
            [] tmpId.id = PoolRelayTypeMultiHostName ->
                 LET tmpData == Decode(data, SStruct("tmpData",
                                  <<SUint, SPtr(SText)>>))
                 IN IF ~tmpData.ok THEN [err |-> "decode", p |-> p1]
                    ELSE [err |-> "nil",
                          p |-> [p1 EXCEPT !.Hostname = tmpData.val.sub[2]]]
            [] OTHER -> [err |-> "invalid relay type", p |-> p1]

\* an UnmarshalCBOR that gives up when the map shape does not decode
MIRRewardUnmarshalNoFallback(r, data) ==
  LET tmpMapData == Decode(data, SStruct("tmpMapData",
                      <<SUint, SMap(SPtr(StakeCredentialSchema), SUint)>>))
  IN IF tmpMapData.ok
       THEN [err |-> "nil",
             r |-> [r EXCEPT !.Rewards = tmpMapData.val.sub[2],
                             !.Source = tmpMapData.val.sub[1].n]]
       ELSE [err |-> "failed to decode as known types", r |-> r]

\* MoveInstantaneousRewardsCertificateReward.UnmarshalCBOR on receiver r
MIRRewardUnmarshal(r, data) ==
  LET tmpMapData == Decode(data, SStruct("tmpMapData",
                      <<SUint, SMap(SPtr(StakeCredentialSchema), SUint)>>))
      tmpCoinData == Decode(data, SStruct("tmpCoinData", <<SUint, SUint>>))
  IN IF tmpMapData.ok
       THEN [err |-> "nil",
             r |-> [r EXCEPT !.Rewards = tmpMapData.val.sub[2],
                             !.Source = tmpMapData.val.sub[1].n]]
     ELSE IF tmpCoinData.ok
       THEN [err |-> "nil",
             r |-> [r EXCEPT !.OtherPot = tmpCoinData.val.sub[2].n,
                             !.Source = tmpMapData.val.sub[1].n]]
     ELSE [err |-> "failed to decode as known types", r |-> r]

PoolMetadataSchema == SStruct("PoolMetadata", <<SText, SBytes>>)

\* the wire shape of the certificate struct a discriminant selects
CertificateSchema(certType) ==
  CASE certType = CertificateTypeStakeRegistration ->
         SStruct("StakeRegistrationCertificate", <<SUint, StakeCredentialSchema>>)
    [] certType = CertificateTypeStakeDeregistration ->
         SStruct("StakeDeregistrationCertificate", <<SUint, StakeCredentialSchema>>)
    [] certType = CertificateTypeStakeDelegation ->
         SStruct("StakeDelegationCertificate",
                 <<SUint, SPtr(StakeCredentialSchema), SBytes>>)
    [] certType = CertificateTypePoolRegistration ->
         SStruct("PoolRegistrationCertificate",
                 <<SUint, SBytes, SBytes, SUint, SUint, SRat, SBytes,
                   SSlice(SBytes), SSlice(SRelay), SPtr(PoolMetadataSchema)>>)
    [] certType = CertificateTypePoolRetirement ->
         SStruct("PoolRetirementCertificate", <<SUint, SBytes, SUint>>)
    [] certType = CertificateTypeGenesisKeyDelegation ->
         SStruct("GenesisKeyDelegationCertificate",
                 <<SUint, SBytes, SBytes, SBytes>>)
    [] certType = CertificateTypeMoveInstantaneousRewards ->
         SStruct("MoveInstantaneousRewardsCertificate", <<SUint, SReward>>)

CertificateTypes ==
  {CertificateTypeStakeRegistration, CertificateTypeStakeDeregistration,
   CertificateTypeStakeDelegation, CertificateTypePoolRegistration,
   CertificateTypePoolRetirement, CertificateTypeGenesisKeyDelegation,
   CertificateTypeMoveInstantaneousRewards}

PoolRelayTypes ==
  {PoolRelayTypeSingleHostAddress, PoolRelayTypeSingleHostName,
   PoolRelayTypeMultiHostName}

ZeroWrapper == [Type |-> 0, Certificate |-> Nil]

\* an UnmarshalCBOR whose switch defaults to the stake registration shape
CertificateWrapperUnmarshalDefault(c, data) ==
  LET certType == DecodeIdFromList(data) IN
  IF ~certType.ok THEN [err |-> "decode id", c |-> c]
  ELSE LET tmpCert ==
             Decode(data, CertificateSchema(
               IF certType.id \in CertificateTypes
                 THEN certType.id ELSE CertificateTypeStakeRegistration))
       IN IF ~tmpCert.ok THEN [err |-> "decode", c |-> c]
          ELSE [err |-> "nil",
                c |-> [Type |-> certType.id, Certificate |-> tmpCert.val]]

\* CertificateWrapper.UnmarshalCBOR on receiver c
CertificateWrapperUnmarshal(c, data) ==
  LET certType == DecodeIdFromList(data) IN
  IF ~certType.ok THEN [err |-> "decode id", c |-> c]
  ELSE IF certType.id \notin CertificateTypes
    THEN [err |-> "unknown certificate type", c |-> c]
  ELSE LET tmpCert == Decode(data, CertificateSchema(certType.id)) IN
       IF ~tmpCert.ok THEN [err |-> "decode", c |-> c]
       ELSE [err |-> "nil",
             c |-> [Type |-> certType.id, Certificate |-> tmpCert.val]]

\* ------------------------------------------------------------------------
\* Ledger: the decoders applied to wire data
\* ------------------------------------------------------------------------
CredItems == {WList(<<WInt(ct), WBytes(1)>>) : ct \in 0..1}

RewardItems ==
  {WList(<<WInt(1), WMap(<<WList(<<WInt(0), WBytes(1)>>), WInt(5)>>)>>),
   WList(<<WInt(2), WInt(7)>>),
   WList(<<WInt(1), WBytes(1)>>)}

\* what follows the discriminant in a pool relay: the fields of the three
\* relay shapes, and field lists that fit none
RelayBodies ==
  {<<WInt(80), WBytes(4), WNull>>, <<WNull, WNull, WBytes(6)>>,
   <<WInt(80), WText(1)>>, <<WNull, WText(1)>>,
   <<WText(2)>>,
   <<>>, <<WInt(1), WInt(2)>>}

RelayInputs ==
  {WList(<<WInt(d)>> \o b) : d \in (-1)..MaxRelayId, b \in RelayBodies}
  \cup {WList(<<>>), WInt(1), WList(<<WText(1)>>)}

PoolRegistrationBodies ==
  {<<WBytes(1), WBytes(2), WInt(100), WInt(3), WTag(30, <<WInt(1), WInt(2)>>),
     WBytes(3), WList(<<WBytes(4)>>), WList(rs), md>> :
     rs \in {<<>>, <<WList(<<WInt(2), WText(2)>>)>>,
             <<WList(<<WInt(3), WText(2)>>)>>},
     md \in {WNull, WList(<<WText(1), WBytes(5)>>)}}

\* what follows the discriminant in a certificate: the fields of the seven
\* certificate shapes, and field lists that fit none
CertBodies ==
  {<<cr>> : cr \in CredItems}
  \cup {<<cr, WBytes(2)>> : cr \in CredItems \cup {WNull}}
  \cup PoolRegistrationBodies
  \cup {<<WBytes(1), WInt(5)>>}
  \cup {<<WBytes(1), WBytes(2), WBytes(3)>>}
  \cup {<<rw>> : rw \in RewardItems}
  \cup {<<>>, <<WInt(1)>>, <<WBytes(1), WBytes(1)>>}

CertInputs ==
  {WList(<<WInt(d)>> \o b) : d \in (-1)..MaxCertId, b \in CertBodies}
  \cup {WList(<<>>), WInt(2), WList(<<WBytes(1)>>), WNull}

\* the sources of a reward range over 0..MaxSource
MaxSource == 2

\* wire data handed to the reward decoder: both shapes, and data of neither
RewardInputs ==
  {WList(<<WInt(src), WMap(m)>>) :
     src \in 0..MaxSource,
     m \in {<<>>} \cup {<<cr, WInt(5)>> : cr \in CredItems}}
  \cup {WList(<<WInt(src), WInt(coin)>>) : src \in 0..MaxSource, coin \in {0, 7}}
  \cup {WList(<<WNull, WInt(7)>>), WList(<<WInt(1), WNull>>),
        WList(<<WInt(1), WBytes(1)>>), WList(<<WInt(-1), WInt(7)>>),
        WList(<<WInt(1), WInt(-4)>>), WList(<<WInt(1)>>),
        WList(<<WInt(1), WInt(7), WInt(8)>>), WInt(3), WMap(<<>>),
        WList(<<WInt(1), WMap(<<WInt(3), WInt(5)>>)>>)}

LedNoCall == [op |-> "none", data |-> WNull, err |-> "nil"]

\* wrapper.UnmarshalCBOR(data); one run decodes into one receiver, the
\* wrapper or the relay, again and again
CertUnmarshal(data) ==
  /\ ledLast.op \in {"none", "cert"}
  /\ LET r == CertificateWrapperUnmarshal(wrapper, data) IN
       /\ wrapper' = r.c
       /\ ledLast' = [op |-> "cert", data |-> data, err |-> r.err]
  /\ UNCHANGED <<relay, reward, kaVars, newVars, lsqVars, otherVars>>

\* relay.UnmarshalCBOR(data)
RelayUnmarshal(data) ==
  /\ ledLast.op \in {"none", "relay"}
  /\ LET r == PoolRelayUnmarshal(relay, data) IN
       /\ relay' = r.p
       /\ ledLast' = [op |-> "relay", data |-> data, err |-> r.err]
  /\ UNCHANGED <<wrapper, reward, kaVars, newVars, lsqVars, otherVars>>

\* reward.UnmarshalCBOR(data)
RewardUnmarshal(data) ==
  /\ ledLast.op \in {"none", "reward"}
  /\ LET r == MIRRewardUnmarshal(reward, data) IN
       /\ reward' = r.r
       /\ ledLast' = [op |-> "reward", data |-> data, err |-> r.err]
  /\ UNCHANGED <<wrapper, relay, kaVars, newVars, lsqVars, otherVars>>

\* the data of the latest call starts with an integer outside ids
LeadingIdOutside(last, ids) ==
  /\ last.data.k = "list"
  /\ Len(last.data.sub) > 0
  /\ last.data.sub[1].k = "int"
  /\ last.data.sub[1].n \notin ids

\* C8: a certificate whose leading discriminant is outside 0..6 is refused
\* with an error and the wrapper receives no certificate; a pool relay whose
\* leading discriminant is outside 0..2 is refused with an error and none of
\* the fields of a relay variant is filled in.
C8_ClosedSetDecode ==
  [][/\ (ledLast'.op = "cert" /\ LeadingIdOutside(ledLast', 0..6))
          => (ledLast'.err # "nil" /\ wrapper' = wrapper)
     /\ (ledLast'.op = "relay" /\ LeadingIdOutside(ledLast', 0..2))
          => (/\ ledLast'.err # "nil"
              /\ relay'.Port = relay.Port
              /\ relay'.Ipv4 = relay.Ipv4
              /\ relay'.Ipv6 = relay.Ipv6
              /\ relay'.Hostname = relay.Hostname)]_vars

C8_Witness ==
  /\ ledLast.op = "cert"
  /\ LeadingIdOutside(ledLast, 0..6)
  /\ ledLast.data.sub[1].n = 7
  /\ Len(ledLast.data.sub) = 2
  /\ ledLast.err = "unknown certificate type"
  /\ wrapper.Certificate # Nil

\* the data decodes as the map shape [source, rewards-map]
MapShape(data) ==
  Decode(data, SStruct("tmpMapData",
                       <<SUint, SMap(SPtr(StakeCredentialSchema), SUint)>>))

\* the data decodes as the coin shape [source, coin]
CoinShape(data) == Decode(data, SStruct("tmpCoinData", <<SUint, SUint>>))

\* the unsigned integer a wire element puts into a field that was zero
WireUint(item) == IF item.k = "int" THEN item.n ELSE 0

\* what the claim says of the three cases but for the Rewards of the coin
\* shape, which is the argument
FallbackDecode(coinRewards) ==
  ledLast'.op = "reward" =>
    LET data == ledLast'.data IN
    IF MapShape(data).ok
      THEN /\ ledLast'.err = "nil"
           /\ reward'.Source = WireUint(data.sub[1])
           /\ reward'.Rewards = MapShape(data).val.sub[2]
           /\ reward'.OtherPot = reward.OtherPot
    ELSE IF CoinShape(data).ok
      THEN /\ ledLast'.err = "nil"
           /\ reward'.OtherPot = WireUint(data.sub[2])
           /\ reward'.Source = WireUint(data.sub[1])
           /\ reward'.Rewards = coinRewards
    ELSE /\ ledLast'.err # "nil"
         /\ reward' = reward

\* C20 as stated: the map shape is tried first and the coin shape when it
\* fails; an error is returned only when both fail; the coin shape gives
\* OtherPot and Source from the wire and a result with no Rewards; the map
\* shape gives Source and Rewards from the wire and leaves OtherPot.
C20_FallbackDecode ==
  [][FallbackDecode(Nil)]_vars

\* C20 as amended: the same, but the coin shape leaves Rewards as it was
\* before the call, hence absent only in a receiver that had none.
C20_FallbackDecodeKeepsRewards ==
  [][FallbackDecode(reward.Rewards)]_vars

\* a receiver that holds rewards of an earlier call has decoded the coin
\* shape: it has the coin and the source of the wire, and still the rewards
C20_Witness ==
  /\ ledLast.op = "reward"
  /\ ledLast.err = "nil"
  /\ ledLast.data = WList(<<WInt(2), WInt(7)>>)
  /\ reward.Source = 2
  /\ reward.OtherPot = 7
  /\ reward.Rewards # Nil
  /\ reward.Rewards.sub # <<>>

\* ------------------------------------------------------------------------
\* Ledger: block and block header dispatch
\* ------------------------------------------------------------------------
\* block types range over 0..MaxBlockType
MaxBlockType == 9

\* the block type identifiers of the eras; they are declared with the era
\* types, outside the files modelled here, and are distinct: the switch
\* statements that list them would not compile otherwise
BlockTypeByronEbb == 0
BlockTypeByronMain == 1
BlockTypeShelley == 2
BlockTypeAllegra == 3
BlockTypeMary == 4
BlockTypeAlonzo == 5
BlockTypeBabbage == 6
BlockTypeConway == 7

BlockTypes == 0..MaxBlockType

BlockDecoders ==
  {"NewByronEpochBoundaryBlockFromCbor", "NewByronMainBlockFromCbor",
   "NewShelleyBlockFromCbor", "NewAllegraBlockFromCbor",
   "NewMaryBlockFromCbor", "NewAlonzoBlockFromCbor",
   "NewBabbageBlockFromCbor", "NewConwayBlockFromCbor"}

HeaderDecoders ==
  {"NewByronEpochBoundaryBlockHeaderFromCbor",
   "NewByronMainBlockHeaderFromCbor", "NewShelleyBlockHeaderFromCbor",
   "NewBabbageBlockHeaderFromCbor"}

\* block data, named by the one era decoder that accepts it: a block and a
\* header of an early and of a late era, and data that no decoder accepts
BlockData ==
  {"NewShelleyBlockFromCbor", "NewConwayBlockFromCbor",
   "NewShelleyBlockHeaderFromCbor", "NewBabbageBlockHeaderFromCbor",
   "garbage"}

\* an era decoder applied to data: the value it returns is nil unless it
\* accepts the data
EraDecode(decoder, data) ==
  [decoders |-> <<decoder>>,
   isNil |-> (data # decoder),
   err |-> IF data = decoder THEN "nil" ELSE "decode error"]

\* "return nil, fmt.Errorf(...)"
ReturnNilError(e) == [decoders |-> <<>>, isNil |-> TRUE, err |-> e]

\* NewBlockFromCbor
NewBlockFromCbor(blockType, data) ==
  CASE blockType = BlockTypeByronEbb ->
         EraDecode("NewByronEpochBoundaryBlockFromCbor", data)
    [] blockType = BlockTypeByronMain ->
         EraDecode("NewByronMainBlockFromCbor", data)
    [] blockType = BlockTypeShelley -> EraDecode("NewShelleyBlockFromCbor", data)
    [] blockType = BlockTypeAllegra -> EraDecode("NewAllegraBlockFromCbor", data)
    [] blockType = BlockTypeMary -> EraDecode("NewMaryBlockFromCbor", data)
    [] blockType = BlockTypeAlonzo -> EraDecode("NewAlonzoBlockFromCbor", data)
    [] blockType = BlockTypeBabbage -> EraDecode("NewBabbageBlockFromCbor", data)
    [] blockType = BlockTypeConway -> EraDecode("NewConwayBlockFromCbor", data)
    [] OTHER -> ReturnNilError("unknown node-to-client block type")

\* a NewBlockHeaderFromCbor written before the Conway era was added
NewBlockHeaderFromCborNoConway(blockType, data) ==
  CASE blockType = BlockTypeByronEbb ->
         EraDecode("NewByronEpochBoundaryBlockHeaderFromCbor", data)
    [] blockType = BlockTypeByronMain ->
         EraDecode("NewByronMainBlockHeaderFromCbor", data)
    [] blockType \in {BlockTypeShelley, BlockTypeAllegra, BlockTypeMary,
                      BlockTypeAlonzo} ->
         EraDecode("NewShelleyBlockHeaderFromCbor", data)
    [] blockType = BlockTypeBabbage ->
         EraDecode("NewBabbageBlockHeaderFromCbor", data)
    [] OTHER -> ReturnNilError("unknown node-to-node block type")

\* NewBlockHeaderFromCbor
NewBlockHeaderFromCbor(blockType, data) ==
  CASE blockType = BlockTypeByronEbb ->
         EraDecode("NewByronEpochBoundaryBlockHeaderFromCbor", data)
    [] blockType = BlockTypeByronMain ->
         EraDecode("NewByronMainBlockHeaderFromCbor", data)
    [] blockType \in {BlockTypeShelley, BlockTypeAllegra, BlockTypeMary,
                      BlockTypeAlonzo} ->
         EraDecode("NewShelleyBlockHeaderFromCbor", data)
    [] blockType \in {BlockTypeBabbage, BlockTypeConway} ->
         EraDecode("NewBabbageBlockHeaderFromCbor", data)
    [] OTHER -> ReturnNilError("unknown node-to-node block type")

BlkNoCall ==
  [called |-> FALSE, blockType |-> 0, data |-> "garbage", decoders |-> <<>>,
   isNil |-> TRUE, err |-> "nil"]

\* the record of one call
BlkCall(blockType, data, r) ==
  [called |-> TRUE, blockType |-> blockType, data |-> data,
   decoders |-> r.decoders, isNil |-> r.isNil, err |-> r.err]

\* a call NewBlockFromCbor(blockType, data)
BlockFromCbor(blockType, data) ==
  /\ blkLast' = BlkCall(blockType, data, NewBlockFromCbor(blockType, data))
  /\ UNCHANGED <<hdrLast, kaVars, newVars, lsqVars, ledVars, hdlVars, rtVars,
                 tmVars, armVars>>

\* a call NewBlockHeaderFromCbor(blockType, data)
BlockHeaderFromCbor(blockType, data) ==
  /\ hdrLast' = BlkCall(blockType, data, NewBlockHeaderFromCbor(blockType, data))
  /\ UNCHANGED <<blkLast, kaVars, newVars, lsqVars, ledVars, hdlVars, rtVars,
                 tmVars, armVars>>

\* the eight era types
KnownBlockTypes ==
  {BlockTypeByronEbb, BlockTypeByronMain, BlockTypeShelley, BlockTypeAllegra,
   BlockTypeMary, BlockTypeAlonzo, BlockTypeBabbage, BlockTypeConway}

\* what the claim says of one call, new, that follows the call old of the
\* same function, whose era decoders are eraDecoders
DispatchClosed(old, new, eraDecoders) ==
  new.called =>
    /\ new.blockType \notin KnownBlockTypes
         => (new.decoders = <<>> /\ new.isNil /\ new.err # "nil")
    /\ new.blockType \in KnownBlockTypes
         => /\ Len(new.decoders) = 1
            /\ new.decoders[1] \in eraDecoders
            /\ new.isNil = EraDecode(new.decoders[1], new.data).isNil
            /\ new.err = EraDecode(new.decoders[1], new.data).err
    /\ (old.called /\ old.blockType = new.blockType)
         => new.decoders = old.decoders

\* C13: a block type outside the eight era types makes each of the two
\* functions return nil and an error whatever the data, without calling an
\* era decoder; a known block type makes each call exactly one era decoder,
\* the same one for the same block type whatever the data, and return its
\* result; a block type is refused by one function exactly when the other
\* refuses it.
C13_ClosedSetBlocks ==
  [][/\ DispatchClosed(blkLast, blkLast', BlockDecoders)
     /\ DispatchClosed(hdrLast, hdrLast', HeaderDecoders)
     /\ (blkLast'.called /\ hdrLast'.called
           /\ blkLast'.blockType = hdrLast'.blockType)
          => ((blkLast'.decoders = <<>>) <=> (hdrLast'.decoders = <<>>))]_vars

\* both functions were given the Conway block type and data that their era
\* decoders accept
C13_Witness ==
  /\ blkLast.called
  /\ hdrLast.called
  /\ blkLast.blockType = BlockTypeConway
  /\ hdrLast.blockType = BlockTypeConway
  /\ blkLast.decoders = <<"NewConwayBlockFromCbor">>
  /\ hdrLast.decoders = <<"NewBabbageBlockHeaderFromCbor">>
  /\ ~blkLast.isNil
  /\ ~hdrLast.isNil

\* ------------------------------------------------------------------------
\* Keep-alive client: the message handler called on its own
\* ------------------------------------------------------------------------
\* messages handed to the handler
MaxHandled == 3

\* the message types of the protocol and one that is none of them
HdlMsgTypes == KAMsgTypes \cup {"Unknown"}

HdlNoCall ==
  [n |-> 0, mt |-> "", cookie |-> 0, err |-> "nil", calls |-> <<>>]

\* c.messageHandler(msg) for a message of type mt carrying cookie
HandlerCall(mt, cookie, cbRet) ==
  /\ hdlLast.n < MaxHandled
  /\ LET r == messageHandler(config, mt, cookie, cbRet) IN
       hdlLast' = [n |-> hdlLast.n + 1, mt |-> mt, cookie |-> cookie,
                   err |-> r.err, calls |-> r.calls]
  /\ UNCHANGED <<kaVars, newVars, lsqVars, ledVars, blkVars, rtVars, tmVars,
                 armVars>>

\* C14: a message of a type other than KeepAliveResponse makes the message
\* handler return an error and call no callback.
C14_InboundLegality ==
  (hdlLast.n > 0 /\ hdlLast.mt # "KeepAliveResponse")
    => (hdlLast.err # "nil" /\ hdlLast.calls = <<>>)

\* a client with a response callback was handed a KeepAlive
C14_Witness ==
  /\ hdlLast.n > 0
  /\ config.KeepAliveResponseFunc
  /\ hdlLast.mt = "KeepAlive"
  /\ hdlLast.err = "unexpected message type"
  /\ hdlLast.calls = <<>>

\* ------------------------------------------------------------------------
\* Ledger: encoding of certificates and the round trip
\* ------------------------------------------------------------------------
\* hashes range over 1..MaxHash
MaxHash == 2

Hashes == 1..MaxHash

\* the struct types declared with cbor.StructAsArray: they are encoded as a
\* list of their fields in order
StructAsArrayTypes ==
  {"StakeCredential", "StakeRegistrationCertificate",
   "StakeDeregistrationCertificate", "StakeDelegationCertificate",
   "PoolMetadata", "PoolRegistrationCertificate", "PoolRetirementCertificate",
   "GenesisKeyDelegationCertificate", "MoveInstantaneousRewardsCertificate"}

\* the text string that holds the name of the k-th field of a struct
FieldName(k) == WText(100 + k)

RECURSIVE Encode(_)
RECURSIVE EncodeSeq(_)
RECURSIVE EncodeStructAsMap(_, _)
\* cbor.Encode(v).  A struct declared with cbor.StructAsArray becomes the
\* list of its fields; a struct without it and without a MarshalCBOR of its
\* own (PoolRelay, MoveInstantaneousRewardsCertificateReward) becomes a map
\* from the names of its fields to their values; a nil pointer becomes null.
Encode(v) ==
  CASE v.t = "nil" -> WNull
    [] v.t \in {"uint", "int"} -> WInt(v.n)
    [] v.t = "bytes" -> WBytes(v.n)
    [] v.t = "string" -> WText(v.n)
    [] v.t = "Rat" -> WTag(30, EncodeSeq(v.sub))
    [] v.t = "slice" -> WList(EncodeSeq(v.sub))
    [] v.t = "map" -> WMap(EncodeSeq(v.sub))
    [] v.t \in StructAsArrayTypes -> WList(EncodeSeq(v.sub))
    [] v.t = "PoolRelay" ->
         WMap(EncodeStructAsMap(<<Val("int", v.n, <<>>)>> \o v.sub, 1))
    [] OTHER -> WMap(EncodeStructAsMap(v.sub, 1))
EncodeSeq(vs) ==
  IF vs = <<>> THEN <<>> ELSE <<Encode(Head(vs))>> \o EncodeSeq(Tail(vs))
\* the entries of the map of a struct whose fields from the k-th on are fields
EncodeStructAsMap(fields, k) ==
  IF fields = <<>>
    THEN <<>>
    ELSE <<FieldName(k), Encode(Head(fields))>>
           \o EncodeStructAsMap(Tail(fields), k + 1)

\* CertificateWrapper.MarshalCBOR
CertificateWrapperMarshal(c) == Encode(c.Certificate)

UintVal(n) == Val("uint", n, <<>>)
BytesVal(n) == Val("bytes", n, <<>>)

\* stake credentials: a credential type and a hash
StakeCredentials ==
  {Val("StakeCredential", 0, <<UintVal(ct), BytesVal(h)>>) :
     ct \in 0..1, h \in Hashes}

\* pool relays of the three kinds
PoolRelays ==
  {RelayVal([ZeroRelay EXCEPT !.Type = PoolRelayTypeSingleHostAddress,
                              !.Port = UintVal(80), !.Ipv4 = BytesVal(4)]),
   RelayVal([ZeroRelay EXCEPT !.Type = PoolRelayTypeSingleHostName,
                              !.Port = UintVal(80),
                              !.Hostname = Val("string", 1, <<>>)]),
   RelayVal([ZeroRelay EXCEPT !.Type = PoolRelayTypeMultiHostName,
                              !.Hostname = Val("string", 2, <<>>)])}

\* rewards of the two kinds: to stake credentials, or to the other pot
Rewards ==
  {RewardVal([Source |-> src, Rewards |-> Val("map", 0, m), OtherPot |-> 0]) :
     src \in 0..MaxSource,
     m \in {<<>>} \cup {<<cr, UintVal(5)>> : cr \in StakeCredentials}}
  \cup {RewardVal([Source |-> src, Rewards |-> Nil, OtherPot |-> 7]) :
          src \in 0..MaxSource}

\* the certificates of the seven kinds, each with the CertType of its kind
Certificates ==
  {Val("StakeRegistrationCertificate", 0,
       <<UintVal(CertificateTypeStakeRegistration), cr>>) :
     cr \in StakeCredentials}
  \cup {Val("StakeDeregistrationCertificate", 0,
            <<UintVal(CertificateTypeStakeDeregistration), cr>>) :
          cr \in StakeCredentials}
  \cup {Val("StakeDelegationCertificate", 0,
            <<UintVal(CertificateTypeStakeDelegation), cr, BytesVal(h)>>) :
          cr \in StakeCredentials \cup {Nil}, h \in Hashes}
  \cup {Val("PoolRegistrationCertificate", 0,
            <<UintVal(CertificateTypePoolRegistration), BytesVal(h),
              BytesVal(h), UintVal(100), UintVal(3),
              Val("Rat", 0, <<Val("int", 1, <<>>), Val("int", 2, <<>>)>>),
              BytesVal(h), Val("slice", 0, <<BytesVal(h)>>),
              Val("slice", 0, rs), md>>) :
          h \in Hashes,
          rs \in {<<>>} \cup {<<r>> : r \in PoolRelays},
          md \in {Nil, Val("PoolMetadata", 0,
                           <<Val("string", 1, <<>>), BytesVal(5)>>)}}
  \cup {Val("PoolRetirementCertificate", 0,
            <<UintVal(CertificateTypePoolRetirement), BytesVal(h), UintVal(e)>>) :
          h \in Hashes, e \in {0, 5}}
  \cup {Val("GenesisKeyDelegationCertificate", 0,
            <<UintVal(CertificateTypeGenesisKeyDelegation), BytesVal(h),
              BytesVal(g), BytesVal(h)>>) :
          h \in Hashes, g \in Hashes}
  \cup {Val("MoveInstantaneousRewardsCertificate", 0,
            <<UintVal(CertificateTypeMoveInstantaneousRewards), rw>>) :
          rw \in Rewards}

\* the wrappers of the certificates: Type is the CertType of the certificate
LegalWrappers ==
  {[Type |-> cert.sub[1].n, Certificate |-> cert] : cert \in Certificates}

\* data, err := rtValue.MarshalCBOR()
RtMarshal ==
  /\ rtPc = "new"
  /\ rtWire' = CertificateWrapperMarshal(rtValue)
  /\ rtPc' = "encoded"
  /\ UNCHANGED <<rtValue, rtBack>>
  /\ UNCHANGED <<kaVars, newVars, lsqVars, ledVars, blkVars, hdlVars, tmVars,
                 armVars>>

\* err = new(CertificateWrapper).UnmarshalCBOR(data)
RtUnmarshal ==
  /\ rtPc = "encoded"
  /\ rtBack' = CertificateWrapperUnmarshal(ZeroWrapper, rtWire)
  /\ rtPc' = "decoded"
  /\ UNCHANGED <<rtValue, rtWire>>
  /\ UNCHANGED <<kaVars, newVars, lsqVars, ledVars, blkVars, hdlVars, tmVars,
                 armVars>>

\* C15: what MarshalCBOR makes of a legal certificate starts with a
\* discriminant in 0..6, and UnmarshalCBOR decodes it without an error into a
\* wrapper with the Type, the kind of certificate and the field values of the
\* one that was encoded.
C15_CertificateRoundTrip ==
  /\ rtPc # "new"
       => /\ DecodeIdFromList(rtWire).ok
          /\ DecodeIdFromList(rtWire).id \in 0..6
  /\ rtPc = "decoded"
       => /\ rtBack.err = "nil"
          /\ rtBack.c = rtValue

\* ------------------------------------------------------------------------
\* Keep-alive client with a clock: the period and the Server-state timeout
\* ------------------------------------------------------------------------
\* periods range over 1..MaxPeriod
MaxPeriod == 3
\* the clock runs from 0 to MaxTime
MaxTime == 6

\* the state table of a client constructed with cfg.Timeout = timeout
ClientStateMap(timeout) ==
  LET r == NewClientStateMap(<<StateMap>>, timeout) IN r.heap[r.ref]

NoFailure == [kind |-> "none", at |-> 0, entered |-> 0]

\* the timer of the client has reached the time it was armed for
TimerDue == tmTimer # <<>> /\ tmNow >= tmTimer[1]

\* the engine has waited for a message for the timeout of the current state
TimeoutDue ==
  /\ tmStarted
  /\ ClientStateMap(tmConfig.Timeout)[tmState].Timeout # NoTimeout
  /\ tmNow >= tmEntered + ClientStateMap(tmConfig.Timeout)[tmState].Timeout

\* sendKeepAlive as a whole at the current time: SendMessage, SendError when
\* it failed, startTimer.  An error on the error channel fails the instance.
TmSendKeepAlive ==
  \E o \in SendMessage(ClientStateMap(tmConfig.Timeout), tmState, FALSE,
                       "KeepAlive") :
    /\ tmState' = o.next
    /\ tmEntered' = IF o.written THEN tmNow ELSE tmEntered
    /\ tmFail' =
         IF o.err
           THEN [kind |-> IF legalTransition(ClientStateMap(tmConfig.Timeout),
                                             tmState, "KeepAlive").ok
                            THEN "TransportError" ELSE "ProtocolViolation",
                 at |-> tmNow, entered |-> tmEntered]
           ELSE tmFail
    /\ tmTimer' = <<tmNow + tmConfig.Period>>

\* Client.Start
TmStart ==
  /\ ~tmStarted
  /\ tmStarted' = TRUE
  /\ TmSendKeepAlive
  /\ UNCHANGED <<tmConfig, tmNow>>
  /\ UNCHANGED <<kaVars, newVars, lsqVars, ledVars, blkVars, hdlVars, rtVars,
                 armVars>>

\* time passes, but not beyond the moment a timer or a timeout is due
TmTick ==
  /\ tmNow < MaxTime
  /\ tmFail = NoFailure
  /\ ~TimerDue
  /\ ~TimeoutDue
  /\ tmNow' = tmNow + 1
  /\ UNCHANGED <<tmConfig, tmStarted, tmState, tmEntered, tmTimer, tmFail>>
  /\ UNCHANGED <<kaVars, newVars, lsqVars, ledVars, blkVars, hdlVars, rtVars,
                 armVars>>

\* the timer armed by startTimer fires and runs sendKeepAlive
TmTimerFire ==
  /\ TimerDue
  /\ tmFail = NoFailure
  /\ TmSendKeepAlive
  /\ UNCHANGED <<tmConfig, tmNow, tmStarted>>
  /\ UNCHANGED <<kaVars, newVars, lsqVars, ledVars, blkVars, hdlVars, rtVars,
                 armVars>>

\* the engine gives up waiting: the instance fails with Timeout
TmTimeout ==
  /\ TimeoutDue
  /\ tmFail = NoFailure
  /\ tmFail' = [kind |-> "Timeout", at |-> tmNow, entered |-> tmEntered]
  /\ UNCHANGED <<tmConfig, tmNow, tmStarted, tmState, tmEntered, tmTimer>>
  /\ UNCHANGED <<kaVars, newVars, lsqVars, ledVars, blkVars, hdlVars, rtVars,
                 armVars>>

\* the peer's KeepAliveResponse arrives and is handled without an error
TmResponse ==
  /\ tmStarted
  /\ tmFail = NoFailure
  /\ StateMap[tmState].Agency = "Server"
  /\ legalTransition(ClientStateMap(tmConfig.Timeout), tmState,
                     "KeepAliveResponse").ok
  /\ tmState' = legalTransition(ClientStateMap(tmConfig.Timeout), tmState,
                                "KeepAliveResponse").next
  /\ tmEntered' = tmNow
  /\ UNCHANGED <<tmConfig, tmNow, tmStarted, tmTimer, tmFail>>
  /\ UNCHANGED <<kaVars, newVars, lsqVars, ledVars, blkVars, hdlVars, rtVars,
                 armVars>>

\* C16: with the Server-state timeout configured to T, an instance that
\* waits in state Server for a response does not fail before T has elapsed
\* since it entered that state, neither with Timeout nor with another error
\* of its own making (a failing transport is not its making).
C16_NoFailureBeforeTimeout ==
  (/\ tmConfig.Timeout # NoTimeout
   /\ tmFail.kind \notin {"none", "TransportError"})
    => tmFail.at >= tmFail.entered + tmConfig.Timeout

\* ------------------------------------------------------------------------
\* Keep-alive client: startTimer statement by statement
\* ------------------------------------------------------------------------
\* the parts that are no keep-alive client and no record of who made a timer
nonArmVars == <<newVars, lsqVars, ledVars, blkVars, hdlVars, rtVars, tmVars>>

\* the timer goroutine g created and has not stored in Client.timer yet
Unstored(g) == {t \in 1..Len(made) : made[t].by = g /\ ~made[t].stored}

\* startTimer run by the body of Start, lines "c.timer.Stop()" and
\* "time.AfterFunc(...)": the new timer is pending from here on, the
\* assignment to Client.timer has not happened yet
ArmCallerCreate(c) ==
  /\ cpc[c] = "arm"
  /\ timers' = startTimer(timers, timer).timers
  /\ made' = Append(made, [by |-> 0 - c, stored |-> FALSE])
  /\ cpc' = [cpc EXCEPT ![c] = "store"]
  /\ UNCHANGED nonArmVars
  /\ UNCHANGED <<config, onceStart, timer, protoState, done, cleanupPc,
                 cleanupRef, errChan, protocolStarts, attempts, sent,
                 lastSendState, callbackLog, received, hist>>

\* startTimer run by the body of Start, the assignment "c.timer = ..."; the
\* body of Start then returns
ArmCallerStore(c) ==
  /\ cpc[c] = "store"
  /\ \E t \in Unstored(0 - c) :
       /\ timer' = t
       /\ made' = [made EXCEPT ![t].stored = TRUE]
  /\ onceStart' = "done"
  /\ cpc' = [cpc EXCEPT ![c] = "idle"]
  /\ hist' = [hist EXCEPT !.returned = TRUE]
  /\ UNCHANGED nonArmVars
  /\ UNCHANGED <<config, timers, protoState, done, cleanupPc, cleanupRef,
                 errChan, protocolStarts, attempts, sent, lastSendState,
                 callbackLog, received>>

\* the same two steps run by the goroutine of timer i
ArmTimerCreate(i) ==
  /\ i \in TimerIds
  /\ timers[i].pc = "arm"
  /\ timers' = startTimer([timers EXCEPT ![i].pc = "store"], timer).timers
  /\ made' = Append(made, [by |-> i, stored |-> FALSE])
  /\ UNCHANGED nonArmVars
  /\ UNCHANGED <<config, onceStart, cpc, timer, protoState, done, cleanupPc,
                 cleanupRef, errChan, protocolStarts, attempts, sent,
                 lastSendState, callbackLog, received, hist>>

ArmTimerStore(i) ==
  /\ i \in TimerIds
  /\ timers[i].pc = "store"
  /\ \E t \in Unstored(i) :
       /\ timer' = t
       /\ made' = [made EXCEPT ![t].stored = TRUE]
  /\ timers' = [timers EXCEPT ![i].pc = "finished"]
  /\ UNCHANGED nonArmVars
  /\ UNCHANGED <<config, onceStart, cpc, protoState, done, cleanupPc,
                 cleanupRef, errChan, protocolStarts, attempts, sent,
                 lastSendState, callbackLog, received, hist>>

\* C21: in every reachable state at most one timer is armed (created, not
\* stopped, not yet fired). A goroutine is inside sendKeepAlive only as the
\* body of Start or as the function of a timer that has fired, so an armed
\* timer and a goroutine that is about to create one never coexist; and no
\* timer exists before Start has run.
C21_SingleTimer ==
  /\ Cardinality(ArmedTimers) <= 1
  /\ Cardinality(ArmedTimers) + InSendKeepAlive <= 1
  /\ protocolStarts = 0 => (timers = <<>> /\ timer = 0)

\* a timer fired before the goroutine that created it had stored it in
\* Client.timer: three timers were created one after the other, the last is
\* armed, and Client.timer refers to an earlier one
C21_Witness ==
  /\ Len(timers) = 3
  /\ ArmedTimers = {3}
  /\ timer \in {1, 2}
  /\ \A t \in 1..Len(made) : made[t].stored
  /\ ~done

\* ------------------------------------------------------------------------
\* Ledger: what a failed decode leaves in the receiver
\* ------------------------------------------------------------------------
\* C22: whenever CertificateWrapper.UnmarshalCBOR or PoolRelay.UnmarshalCBOR
\* returns an error, every field of the receiver (Type and Certificate; Type,
\* Port, Ipv4, Ipv6, Hostname) has the value it had before the call.
C22_FailedDecodeLeavesReceiver ==
  [][/\ (ledLast'.op = "cert" /\ ledLast'.err # "nil") => wrapper' = wrapper
     /\ (ledLast'.op = "relay" /\ ledLast'.err # "nil") => relay' = relay]_vars

\* ------------------------------------------------------------------------
\* Specifications
\* ------------------------------------------------------------------------
KAIdle ==
  /\ KAInit
  /\ config = [Cookie |-> 0, KeepAliveResponseFunc |-> FALSE]

NewIdle ==
  /\ maps = <<StateMap>>
  /\ clients = <<>>

LsqIdle ==
  /\ lsqVersion = 0
  /\ lsqServer = NewServer(0, [f \in LsqCallbacks |-> FALSE])
  /\ lsqLast = LsqNoCall

LedIdle ==
  /\ wrapper = ZeroWrapper
  /\ relay = ZeroRelay
  /\ reward = ZeroReward
  /\ ledLast = LedNoCall

BlkIdle ==
  /\ blkLast = BlkNoCall
  /\ hdrLast = BlkNoCall

HdlIdle == hdlLast = HdlNoCall

RtIdle ==
  /\ rtPc = "new"
  /\ rtValue = ZeroWrapper
  /\ rtWire = WNull
  /\ rtBack = [err |-> "nil", c |-> ZeroWrapper]

ArmIdle == made = <<>>

TmIdle ==
  /\ tmConfig = [Period |-> 1, Timeout |-> NoTimeout]
  /\ tmNow = 0
  /\ tmStarted = FALSE
  /\ tmState = StateClient
  /\ tmEntered = 0
  /\ tmTimer = <<>>
  /\ tmFail = NoFailure

\* the keep-alive client of one connection
Init ==
  KAInit /\ NewIdle /\ LsqIdle /\ LedIdle /\ BlkIdle /\ HdlIdle /\ RtIdle /\ TmIdle /\ ArmIdle

Spec == Init /\ [][Next]_vars

\* construction of keep-alive clients from the shared state table
NewInit ==
  KAIdle /\ NewIdle /\ LsqIdle /\ LedIdle /\ BlkIdle /\ HdlIdle /\ RtIdle /\ TmIdle /\ ArmIdle

NewNext == \E timeout \in Timeouts : NewClient(timeout)

SpecNew == NewInit /\ [][NewNext]_vars

\* the local-state-query server reacting to inbound messages
LsqInit ==
  /\ KAIdle /\ NewIdle /\ LedIdle /\ BlkIdle /\ HdlIdle /\ RtIdle /\ TmIdle /\ ArmIdle
  /\ lsqVersion \in Versions
  /\ \E cfg \in [LsqCallbacks -> BOOLEAN] : lsqServer = NewServer(lsqVersion, cfg)
  /\ lsqLast = LsqNoCall

LsqNext ==
  \E msg \in LsqMessages, cbRet \in CallbackResults : LsqHandle(msg, cbRet)

SpecLsq == LsqInit /\ [][LsqNext]_vars

\* the ledger decoders applied to wire data, on receivers that are reused
LedInit ==
  KAIdle /\ NewIdle /\ LsqIdle /\ LedIdle /\ BlkIdle /\ HdlIdle /\ RtIdle /\ TmIdle /\ ArmIdle

LedNext ==
  \/ \E data \in CertInputs : CertUnmarshal(data)
  \/ \E data \in RelayInputs : RelayUnmarshal(data)
  \/ \E data \in RewardInputs : RewardUnmarshal(data)

SpecLed == LedInit /\ [][LedNext]_vars

\* the two block dispatch functions applied to block types and data
BlkInit ==
  KAIdle /\ NewIdle /\ LsqIdle /\ LedIdle /\ BlkIdle /\ HdlIdle /\ RtIdle /\ TmIdle /\ ArmIdle

BlkNext ==
  \/ \E blockType \in BlockTypes, data \in BlockData :
       BlockFromCbor(blockType, data)
  \/ \E blockType \in BlockTypes, data \in BlockData :
       BlockHeaderFromCbor(blockType, data)

SpecBlk == BlkInit /\ [][BlkNext]_vars

\* the keep-alive message handler applied to messages of every type
HdlInit ==
  KAInit /\ NewIdle /\ LsqIdle /\ LedIdle /\ BlkIdle /\ HdlIdle /\ RtIdle /\ TmIdle /\ ArmIdle

HdlNext ==
  \E mt \in HdlMsgTypes, cookie \in Cookies, cbRet \in CallbackResults :
    HandlerCall(mt, cookie, cbRet)

SpecHdl == HdlInit /\ [][HdlNext]_vars

\* certificates encoded by MarshalCBOR and decoded again by UnmarshalCBOR
RtInit ==
  /\ KAIdle /\ NewIdle /\ LsqIdle /\ LedIdle /\ BlkIdle /\ HdlIdle /\ TmIdle /\ ArmIdle
  /\ rtPc = "new"
  /\ rtValue \in LegalWrappers
  /\ rtWire = WNull
  /\ rtBack = [err |-> "nil", c |-> ZeroWrapper]

RtNext == RtMarshal \/ RtUnmarshal

SpecRt == RtInit /\ [][RtNext]_vars

\* the keep-alive client and its engine in time
TmInit ==
  /\ KAIdle /\ NewIdle /\ LsqIdle /\ LedIdle /\ BlkIdle /\ HdlIdle /\ RtIdle
  /\ ArmIdle
  /\ tmConfig \in [Period : 1..MaxPeriod, Timeout : Timeouts]
  /\ tmNow = 0
  /\ tmStarted = FALSE
  /\ tmState = StateClient
  /\ tmEntered = 0
  /\ tmTimer = <<>>
  /\ tmFail = NoFailure

TmNext ==
  \/ TmStart
  \/ TmTick
  \/ TmTimerFire
  \/ TmTimeout
  \/ TmResponse

SpecTm == TmInit /\ [][TmNext]_vars

\* one keep-alive client whose goroutines run and whose timers fire
LiveInit ==
  KAIdle /\ NewIdle /\ LsqIdle /\ LedIdle /\ BlkIdle /\ HdlIdle /\ RtIdle /\ TmIdle /\ ArmIdle

SpecLive ==
  /\ LiveInit
  /\ [][Next]_vars
  /\ WF_vars(\E c \in Callers : ProtocolStart(c))
  /\ WF_vars(\E c \in Callers : CallerSend(c))
  /\ WF_vars(\E c \in Callers : CallerSendError(c))
  /\ WF_vars(\E c \in Callers : CallerStartTimer(c))
  /\ WF_vars(\E i \in 1..(MaxFirings + 1) : TimerFire(i))
  /\ WF_vars(\E i \in 1..(MaxFirings + 1) : TimerSend(i))
  /\ WF_vars(\E i \in 1..(MaxFirings + 1) : TimerSendError(i))
  /\ WF_vars(\E i \in 1..(MaxFirings + 1) : TimerStartTimer(i))

\* the keep-alive client of one connection, startTimer statement by statement,
\* with a server that answers every KeepAlive
ArmInit ==
  KAIdle /\ NewIdle /\ LsqIdle /\ LedIdle /\ BlkIdle /\ HdlIdle /\ RtIdle /\ TmIdle /\ ArmIdle

ArmNext ==
  \/ \E c \in Callers : StartCall(c)
  \/ \E c \in Callers : StartUnblock(c)
  \/ \E c \in Callers : ProtocolStart(c)
  \/ \E c \in Callers : CallerSend(c)
  \/ \E c \in Callers : CallerSendError(c)
  \/ \E c \in Callers : ArmCallerCreate(c)
  \/ \E c \in Callers : ArmCallerStore(c)
  \/ \E i \in TimerIds : TimerFire(i)
  \/ \E i \in TimerIds : TimerSend(i)
  \/ \E i \in TimerIds : TimerSendError(i)
  \/ \E i \in TimerIds : ArmTimerCreate(i)
  \/ \E i \in TimerIds : ArmTimerStore(i)
  \/ Shutdown
  \/ CleanupWake
  \/ CleanupCheck
  \/ CleanupStop
  \/ Receive("KeepAliveResponse", config.Cookie, "nil")

SpecArm == ArmInit /\ [][ArmNext]_vars

====
